---- MODULE Spec2Model ----
(***************************************************************************)
(* Model of the command-line core of vifm (src/src/cmd_core.c):            *)
(*   - the conditional execution gate: if_levels, cmd_should_be_processed, *)
(*     cmds_scoped_if/elseif/else/endif, commands_scope_start/finish;      *)
(*   - the sub-command splitter: break_cmdline with line_pos,              *)
(*     get_cmdline_location, get_cmd_args_type and skip_to_cmd_name.       *)
(* Spec runs scripts through the gate, SpecSplit runs break_cmdline.       *)
(* SpecExec runs exec_commands, SpecClassify line_pos and                  *)
(* get_cmdline_location, SpecEval eval_arglist, SpecCmd execute_command     *)
(* with the selection of the view, SpecRange select_range and SpecAssoc    *)
(* the association lists of src/src/filetype.c.                            *)
(***************************************************************************)
EXTENDS Integers, Sequences, FiniteSets, TLC

VARIABLES
  if_levels,                \* static int_stack_t if_levels (bottom first)
  skipped_nested_if_stmts,  \* static counter of cmd_should_be_processed
  keep_view_selection,      \* static int keep_view_selection
  last,                     \* observation: the last operation and its result
  chains,                   \* observation: syntactic nesting of the script
  done,                     \* observation: the chain closed by the last command
  pc,                       \* break_cmdline: position in the function
  mem,                      \* break_cmdline: cmdline_copy and what follows it
  size,                     \* break_cmdline: strlen(cmdline) + 1
  raw,                      \* break_cmdline: char *raw (1-based index in mem)
  processed,                \* break_cmdline: char *processed
  cmdline,                  \* break_cmdline: start of the last command
  args_kind,                \* break_cmdline: CmdArgsType args_kind
  cmds,                     \* break_cmdline: the resulting string array
  line,                     \* break_cmdline: the argument, never modified
  trace,                    \* observation: split points and out-of-bounds use
  ex,                       \* exec_commands: cmd, save_msg and what was run
  ev,                       \* eval_arglist: args, eval_result and the parser
  cl,                       \* line_pos, get_cmdline_location: call and result
  xc,                       \* execute_command: the view's selection, the call
  sr,                       \* select_range: the view and the call
  ft                        \* filetype.c: an association list and the call

gateVars == <<if_levels, skipped_nested_if_stmts, keep_view_selection, last,
              chains, done>>
splitVars == <<pc, mem, size, raw, processed, cmdline, args_kind, cmds, line,
               trace>>
viewVars == <<xc, sr, ft>>
callVars == <<ex, ev, cl, xc, sr, ft>>
vars == <<if_levels, skipped_nested_if_stmts, keep_view_selection, last,
          chains, done, pc, mem, size, raw, processed, cmdline, args_kind,
          cmds, line, trace, ex, ev, cl, xc, sr, ft>>

(***************************************************************************)
(* Bounds of the model.                                                    *)
(***************************************************************************)
MaxDepth == 3
MaxSkip == 2
MaxChains == 3

(***************************************************************************)
(* The conditional execution gate.                                         *)
(***************************************************************************)
IfFrame == {"IF_SCOPE_GUARD", "IF_BEFORE_MATCH", "IF_MATCH", "IF_AFTER_MATCH",
            "IF_ELSE", "IF_FINISH"}

CondCmdIds == {"COM_IF_STMT", "COM_ELSEIF_STMT", "COM_ELSE_STMT",
               "COM_ENDIF_STMT"}
\* COM_OTHER stands for the id of any command that is not a conditional one.
CmdIds == CondCmdIds \cup {"COM_OTHER"}

int_stack_top_is(stack, val) == Len(stack) > 0 /\ stack[Len(stack)] = val

int_stack_set_top(stack, val) == [stack EXCEPT ![Len(stack)] = val]

int_stack_pop(stack) == SubSeq(stack, 1, Len(stack) - 1)

\* Removes items up to and including the topmost seq_guard (all items when
\* there is none).
RECURSIVE int_stack_pop_seq(_, _)
int_stack_pop_seq(stack, seq_guard) ==
  IF Len(stack) = 0 THEN stack
  ELSE IF stack[Len(stack)] = seq_guard THEN int_stack_pop(stack)
  ELSE int_stack_pop_seq(int_stack_pop(stack), seq_guard)

is_at_scope_bottom(scope_stack) ==
  Len(scope_stack) = 0 \/ int_stack_top_is(scope_stack, "IF_SCOPE_GUARD")

\* cmd_should_be_processed() without the IF_ELSE test of its first condition.
cmd_should_be_processed_NoElse(levels, skipped, cmd_id) ==
  IF is_at_scope_bottom(levels) \/ int_stack_top_is(levels, "IF_MATCH")
  THEN [ret |-> TRUE, skipped |-> skipped]
  ELSE IF cmd_id = "COM_IF_STMT"
  THEN [ret |-> FALSE, skipped |-> skipped + 1]
  ELSE IF cmd_id = "COM_ELSEIF_STMT"
  THEN [ret |-> (skipped = 0), skipped |-> skipped]
  ELSE IF cmd_id = "COM_ELSE_STMT" \/ cmd_id = "COM_ENDIF_STMT"
  THEN IF skipped > 0
       THEN [ret |-> FALSE,
             skipped |-> IF cmd_id = "COM_ENDIF_STMT" THEN skipped - 1
                         ELSE skipped]
       ELSE [ret |-> TRUE, skipped |-> skipped]
  ELSE [ret |-> FALSE, skipped |-> skipped]

\* Result of the gate and the new value of its static counter.
cmd_should_be_processed(levels, skipped, cmd_id) ==
  IF is_at_scope_bottom(levels) \/ int_stack_top_is(levels, "IF_MATCH")
     \/ int_stack_top_is(levels, "IF_ELSE")
  THEN [ret |-> TRUE, skipped |-> skipped]
  ELSE IF cmd_id = "COM_IF_STMT"
  THEN [ret |-> FALSE, skipped |-> skipped + 1]
  ELSE IF cmd_id = "COM_ELSEIF_STMT"
  THEN [ret |-> (skipped = 0), skipped |-> skipped]
  ELSE IF cmd_id = "COM_ELSE_STMT" \/ cmd_id = "COM_ENDIF_STMT"
  THEN IF skipped > 0
       THEN [ret |-> FALSE,
             skipped |-> IF cmd_id = "COM_ENDIF_STMT" THEN skipped - 1
                         ELSE skipped]
       ELSE [ret |-> TRUE, skipped |-> skipped]
  ELSE [ret |-> FALSE, skipped |-> skipped]

\* The cmds_scoped_* functions: new stack, return code and whether
\* cmds_preserve_selection() was called.
\* cmds_scoped_if() without its call of cmds_preserve_selection().
cmds_scoped_if_NoPreserve(levels, cond) ==
  [levels |-> Append(levels, IF cond THEN "IF_MATCH" ELSE "IF_BEFORE_MATCH"),
   ret |-> 0, keep |-> FALSE]

cmds_scoped_if(levels, cond) ==
  [levels |-> Append(levels, IF cond THEN "IF_MATCH" ELSE "IF_BEFORE_MATCH"),
   ret |-> 0, keep |-> TRUE]

\* cmds_scoped_elseif() that tests the condition after a match as well.
cmds_scoped_elseif_Rematch(levels, cond) ==
  IF is_at_scope_bottom(levels)
  THEN [levels |-> levels, ret |-> 1, keep |-> FALSE]
  ELSE LET if_frame == levels[Len(levels)] IN
    IF if_frame = "IF_ELSE" \/ if_frame = "IF_FINISH"
    THEN [levels |-> levels, ret |-> 1, keep |-> FALSE]
    ELSE [levels |-> int_stack_set_top(levels,
                       IF cond THEN "IF_MATCH"
                       ELSE IF if_frame = "IF_BEFORE_MATCH"
                       THEN "IF_BEFORE_MATCH"
                       ELSE "IF_AFTER_MATCH"),
          ret |-> 0, keep |-> TRUE]

cmds_scoped_elseif(levels, cond) ==
  IF is_at_scope_bottom(levels)
  THEN [levels |-> levels, ret |-> 1, keep |-> FALSE]
  ELSE LET if_frame == levels[Len(levels)] IN
    IF if_frame = "IF_ELSE" \/ if_frame = "IF_FINISH"
    THEN [levels |-> levels, ret |-> 1, keep |-> FALSE]
    ELSE [levels |-> int_stack_set_top(levels,
                       IF if_frame = "IF_BEFORE_MATCH"
                       THEN (IF cond THEN "IF_MATCH" ELSE "IF_BEFORE_MATCH")
                       ELSE "IF_AFTER_MATCH"),
          ret |-> 0, keep |-> TRUE]

\* cmds_scoped_else() that rejects an else after IF_FINISH only.
cmds_scoped_else_AfterElse(levels) ==
  IF is_at_scope_bottom(levels)
  THEN [levels |-> levels, ret |-> 1, keep |-> FALSE]
  ELSE LET if_frame == levels[Len(levels)] IN
    IF if_frame = "IF_FINISH"
    THEN [levels |-> levels, ret |-> 1, keep |-> FALSE]
    ELSE [levels |-> int_stack_set_top(levels,
                       IF if_frame = "IF_BEFORE_MATCH" THEN "IF_ELSE"
                       ELSE "IF_FINISH"),
          ret |-> 0, keep |-> TRUE]

cmds_scoped_else(levels) ==
  IF is_at_scope_bottom(levels)
  THEN [levels |-> levels, ret |-> 1, keep |-> FALSE]
  ELSE LET if_frame == levels[Len(levels)] IN
    IF if_frame = "IF_ELSE" \/ if_frame = "IF_FINISH"
    THEN [levels |-> levels, ret |-> 1, keep |-> FALSE]
    ELSE [levels |-> int_stack_set_top(levels,
                       IF if_frame = "IF_BEFORE_MATCH" THEN "IF_ELSE"
                       ELSE "IF_FINISH"),
          ret |-> 0, keep |-> TRUE]

cmds_scoped_endif(levels) ==
  IF is_at_scope_bottom(levels)
  THEN [levels |-> levels, ret |-> 1, keep |-> FALSE]
  ELSE [levels |-> int_stack_pop(levels), ret |-> 0, keep |-> FALSE]

commands_scope_start(levels) == Append(levels, "IF_SCOPE_GUARD")

\* commands_scope_finish() that pops one frame instead of the sequence.
commands_scope_finish_PopOne(levels) ==
  IF ~is_at_scope_bottom(levels)
  THEN [levels |-> int_stack_pop(levels), ret |-> 1]
  ELSE [levels |-> int_stack_pop(levels), ret |-> 0]

commands_scope_finish(levels) ==
  IF ~is_at_scope_bottom(levels)
  THEN [levels |-> int_stack_pop_seq(levels, "IF_SCOPE_GUARD"), ret |-> 1]
  ELSE [levels |-> int_stack_pop(levels), ret |-> 0]

\* The handler execute_cmd() dispatches to for a command id: the conditional
\* commands call the cmds_scoped_* function of their name, any other command
\* leaves the gate alone.
handler(levels, cmd_id, cond) ==
  CASE cmd_id = "COM_IF_STMT" -> cmds_scoped_if(levels, cond)
    [] cmd_id = "COM_ELSEIF_STMT" -> cmds_scoped_elseif(levels, cond)
    [] cmd_id = "COM_ELSE_STMT" -> cmds_scoped_else(levels)
    [] cmd_id = "COM_ENDIF_STMT" -> cmds_scoped_endif(levels)
    [] OTHER -> [levels |-> levels, ret |-> 0, keep |-> FALSE]

(***************************************************************************)
(* Observation of a script run through the gate.  chains follows the       *)
(* syntax of the commands issued, whatever the gate decides: one entry per *)
(* open scope and per open if, recording what the gate did with it.        *)
(***************************************************************************)
Top(s) == s[Len(s)]

ChainEntry(isScope, live, cond, stack) ==
  [scope |-> isScope,   \* a commands_scope_start() marker, not an if
   live |-> live,       \* the gate let the if itself through
   cond0 |-> cond,      \* condition of the if (of a live one)
   wf |-> TRUE,         \* no elseif or else after the else so far
   hasElse |-> FALSE,   \* the chain has an else
   first |-> TRUE,      \* still in the branch of the if
   nRun |-> 0,          \* branches entered with the gate open (2: several)
   cur |-> FALSE,       \* the current branch was entered with the gate open
   stk0 |-> stack]      \* if_levels right before the if or the scope start

NoChain == [valid |-> FALSE] @@ ChainEntry(FALSE, FALSE, FALSE, <<>>)

NoLast == [op |-> "none", processed |-> FALSE, ret |-> 0, before |-> <<>>,
           base |-> <<>>]

InChain == Len(chains) > 0 /\ ~Top(chains).scope

\* Would an ordinary command be executed in this state of the gate?
GateOpen(levels, skipped) ==
  cmd_should_be_processed(levels, skipped, "COM_OTHER").ret

Bump(n, open) == IF open /\ n < 2 THEN n + 1 ELSE n

\* chains after a command of the given id that the gate answered with ret and
\* that left the gate open or not for the ordinary commands that follow.
ChainsAfter(cmd_id, cond, ret, open) ==
  CASE cmd_id = "COM_IF_STMT" ->
         Append(chains,
                [ChainEntry(FALSE, ret, ret /\ cond, if_levels)
                   EXCEPT !.cur = open, !.nRun = Bump(0, open)])
    [] cmd_id \in {"COM_ELSEIF_STMT", "COM_ELSE_STMT"} /\ InChain ->
         [chains EXCEPT ![Len(chains)] =
            [@ EXCEPT !.wf = @ /\ ~Top(chains).hasElse,
                      !.hasElse = @ \/ cmd_id = "COM_ELSE_STMT",
                      !.first = FALSE,
                      !.cur = open,
                      !.nRun = Bump(@, open)]]
    [] cmd_id = "COM_ENDIF_STMT" /\ InChain ->
         SubSeq(chains, 1, Len(chains) - 1)
    [] OTHER -> chains

DoneAfter(cmd_id) ==
  IF cmd_id = "COM_ENDIF_STMT" /\ InChain
  THEN [valid |-> TRUE] @@ Top(chains)
  ELSE NoChain

(***************************************************************************)
(* Operations of the gate.                                                 *)
(***************************************************************************)
\* execute_command() for a command that get_cmd_id() resolved to cmd_id and
\* whose condition, if it has one, evaluates to cond.
execute_command(cmd_id, cond) ==
  LET g == cmd_should_be_processed(if_levels, skipped_nested_if_stmts, cmd_id)
      h == handler(if_levels, cmd_id, cond)
  IN /\ cmd_id = "COM_IF_STMT" => Len(chains) < MaxChains
     /\ (cmd_id = "COM_IF_STMT" /\ g.ret) => Len(if_levels) < MaxDepth
     /\ g.skipped <= MaxSkip
     /\ skipped_nested_if_stmts' = g.skipped
     /\ IF g.ret
        THEN /\ if_levels' = h.levels
             /\ keep_view_selection' = h.keep
        ELSE UNCHANGED <<if_levels, keep_view_selection>>
     /\ last' = [op |-> cmd_id, processed |-> g.ret,
                 ret |-> IF g.ret THEN h.ret ELSE 0,
                 before |-> if_levels,
                 base |-> <<>>]
     /\ chains' = ChainsAfter(cmd_id, cond, g.ret,
                              GateOpen(if_levels', g.skipped))
     /\ done' = DoneAfter(cmd_id)
     /\ UNCHANGED <<splitVars, callVars>>

IfStmt == \E cond \in BOOLEAN : execute_command("COM_IF_STMT", cond)

ElseifStmt == \E cond \in BOOLEAN : execute_command("COM_ELSEIF_STMT", cond)

ElseStmt == execute_command("COM_ELSE_STMT", FALSE)

EndifStmt == execute_command("COM_ENDIF_STMT", FALSE)

OtherCmd == execute_command("COM_OTHER", FALSE)

\* A script is sourced by a command that the gate let through (or at startup,
\* when if_levels is empty).
ScopeStart ==
  /\ GateOpen(if_levels, skipped_nested_if_stmts)
  /\ Len(if_levels) < MaxDepth
  /\ Len(chains) < MaxChains
  /\ if_levels' = commands_scope_start(if_levels)
  /\ chains' = Append(chains, ChainEntry(TRUE, FALSE, FALSE, if_levels))
  /\ last' = [NoLast EXCEPT !.op = "scope_start", !.before = if_levels]
  /\ done' = NoChain
  /\ UNCHANGED <<skipped_nested_if_stmts, keep_view_selection>>
  /\ UNCHANGED <<splitVars, callVars>>

\* Index of the topmost scope marker of chains, 0 when there is none.
TopScope == LET S == {i \in 1..Len(chains) : chains[i].scope}
            IN IF S = {} THEN 0 ELSE CHOOSE i \in S : \A j \in S : j <= i

\* The end of the sourced script; every scope finish has its scope start.
ScopeFinish ==
  /\ TopScope > 0
  /\ LET f == commands_scope_finish(if_levels) IN
       /\ if_levels' = f.levels
       /\ last' = [op |-> "scope_finish", processed |-> TRUE, ret |-> f.ret,
                   before |-> if_levels,
                   base |-> chains[TopScope].stk0]
  /\ chains' = SubSeq(chains, 1, TopScope - 1)
  /\ done' = NoChain
  /\ UNCHANGED <<skipped_nested_if_stmts, keep_view_selection>>
  /\ UNCHANGED <<splitVars, callVars>>

GateInit ==
  /\ if_levels = <<>>
  /\ skipped_nested_if_stmts = 0
  /\ keep_view_selection = FALSE
  /\ last = NoLast
  /\ chains = <<>>
  /\ done = NoChain

SplitIdle ==
  /\ pc = "idle"
  /\ mem = <<>>
  /\ size = 0
  /\ raw = 0
  /\ processed = 0
  /\ cmdline = 0
  /\ args_kind = "CAT_REGULAR"
  /\ cmds = <<>>
  /\ line = <<>>
  /\ trace = [oob |-> FALSE, splits |-> <<>>]

\* Neither exec_commands() nor eval_arglist() has been called.
NoExec == [cmd |-> 0, save_msg |-> 0, ran |-> <<>>, rets |-> <<>>]

NoEval == [pc |-> "idle"]

NoClassify == [pc |-> "idle"]

NoCmd == [op |-> "none"]
NoRange == [pc |-> "idle"]
NoAssoc == [pc |-> "idle"]
CallIdle ==
  /\ ex = NoExec /\ ev = NoEval /\ cl = NoClassify
  /\ xc = NoCmd /\ sr = NoRange /\ ft = NoAssoc

Init == GateInit /\ SplitIdle /\ CallIdle

Next ==
  \/ IfStmt
  \/ ElseifStmt
  \/ ElseStmt
  \/ EndifStmt
  \/ OtherCmd
  \/ ScopeStart
  \/ ScopeFinish

Spec == Init /\ [][Next]_vars

(***************************************************************************)
(* The sub-command splitter.  A string is a sequence of one-character      *)
(* strings; memory is such a sequence too, with NUL for the zero byte, and *)
(* a pointer is a 1-based index into it.                                   *)
(***************************************************************************)
NUL == "NUL"

MaxLen == 4
MaxSlack == 2

\* Characters of the lines that are enumerated exhaustively.
Alphabet == {"c", "e", "m", " ", "|", "\\", "'"}

\* Bytes that may lie behind the buffer.
Byte == Alphabet \cup {NUL}

Letters == {"a", "b", "c", "d", "e", "f", "h", "i", "l", "m", "o", "p", "r",
            "s", "t"}

At(m, i) == IF i >= 1 /\ i <= Len(m) THEN m[i] ELSE NUL

\* The C string that starts at m[i].
RECURSIVE CStr(_, _)
CStr(m, i) == IF At(m, i) = NUL THEN <<>> ELSE <<m[i]>> \o CStr(m, i + 1)

isspace(c) == c \in {" ", "\t", "\n", "\r", "\f"}

\* skip_to_cmd_name() that skips whitespace only.
RECURSIVE skip_to_cmd_name_NoColon(_, _)
skip_to_cmd_name_NoColon(m, cmd) ==
  IF isspace(At(m, cmd)) THEN skip_to_cmd_name_NoColon(m, cmd + 1) ELSE cmd

RECURSIVE skip_to_cmd_name(_, _)
skip_to_cmd_name(m, cmd) ==
  IF isspace(At(m, cmd)) \/ At(m, cmd) = ":"
  THEN skip_to_cmd_name(m, cmd + 1)
  ELSE cmd

\* Pointer to the first c at or after m[i], or to the end of the string.
RECURSIVE until_first(_, _, _)
until_first(m, i, c) ==
  IF At(m, i) = c \/ At(m, i) = NUL THEN i ELSE until_first(m, i + 1, c)

\* The command registry (engine/cmds.c): the name of a command is its leading
\* run of letters; echo (e), map (m), substitute (s), tr and filter (fil) are
\* known, every other name is an ordinary command.
RECURSIVE NameEnd(_, _)
NameEnd(m, i) == IF At(m, i) \in Letters THEN NameEnd(m, i + 1) ELSE i

get_cmd_id(m, cmd) ==
  LET name == SubSeq(m, cmd, NameEnd(m, cmd) - 1) IN
  CASE name \in {<<"e">>, <<"e", "c", "h", "o">>} -> "COM_ECHO"
    [] name \in {<<"m">>, <<"m", "a", "p">>} -> "COM_MAP"
    [] name \in {<<"s">>} -> "COM_SUBSTITUTE"
    [] name \in {<<"t", "r">>} -> "COM_TR"
    [] name \in {<<"f", "i", "l">>, <<"f", "i", "l", "t", "e", "r">>} ->
         "COM_FILTER"
    [] OTHER -> "COM_OTHER"

\* get_cmd_info(): the id and the separator, which for substitute and tr is
\* the character that follows the name.
get_cmd_info(m, cmd) ==
  LET id == get_cmd_id(m, cmd)
      next == At(m, NameEnd(m, cmd))
  IN [id |-> id,
      sep |-> IF id \in {"COM_SUBSTITUTE", "COM_TR"} /\ next # NUL THEN next
              ELSE " "]

command_accepts_expr(cmd_id) ==
  cmd_id \in {"COM_ECHO", "COM_EXE", "COM_IF_STMT", "COM_ELSEIF_STMT",
              "COM_LET"}

\* Ids of the commands that take the rest of the line.
UntilTheEndIds ==
  {"COMMAND_CMD_ID", "COM_AUTOCMD", "COM_EXECUTE", "COM_CMAP",
   "COM_CNOREMAP", "COM_COMMAND", "COM_FILETYPE", "COM_FILEVIEWER",
   "COM_FILEXTYPE", "COM_MAP", "COM_MMAP", "COM_MNOREMAP", "COM_NMAP",
   "COM_NNOREMAP", "COM_NORMAL", "COM_QMAP", "COM_QNOREMAP", "COM_VMAP",
   "COM_VNOREMAP", "COM_NOREMAP", "COM_WINCMD", "COM_WINDO", "COM_WINRUN"}

get_cmd_args_type(m, cmd) ==
  LET cmd_id == get_cmd_id(m, cmd) IN
  IF cmd_id \in UntilTheEndIds THEN "CAT_UNTIL_THE_END"
  ELSE IF command_accepts_expr(cmd_id) THEN "CAT_EXPR"
  ELSE "CAT_REGULAR"

\* The loop of line_pos() in which a backslash escapes nothing inside "...".
RECURSIVE line_pos_loop_NoDEscape(_, _, _, _, _, _, _)
line_pos_loop_NoDEscape(m, begin, end, sep, rquoting, state, count) ==
  IF begin = end THEN [ret1 |-> FALSE, state |-> state, count |-> count]
  ELSE LET c == At(m, begin)
           go(st, cnt) ==
             line_pos_loop_NoDEscape(m, begin + 1, end, sep, rquoting, st, cnt)
           escape ==
             IF begin + 1 = end
             THEN [ret1 |-> TRUE, state |-> state, count |-> count]
             ELSE line_pos_loop_NoDEscape(m, begin + 2, end, sep, rquoting, state,
                                count)
       IN CASE state = "BEGIN" ->
                 IF sep = " " /\ c = "'" THEN go("S_QUOTING", count)
                 ELSE IF sep = " " /\ c = "\"" THEN go("D_QUOTING", count)
                 ELSE IF sep = " " /\ c = "/" /\ rquoting
                 THEN go("R_QUOTING", count)
                 ELSE IF c = "&" /\ begin = end - 1 THEN go("BEGIN", count)
                 ELSE IF c # sep THEN go("NO_QUOTING", count)
                 ELSE go("BEGIN", count)
            [] state = "NO_QUOTING" ->
                 IF c = sep THEN go("BEGIN", count + 1)
                 ELSE IF c = "'" THEN go("S_QUOTING", count)
                 ELSE IF c = "\"" THEN go("D_QUOTING", count)
                 ELSE IF c = "\\" THEN escape
                 ELSE go(state, count)
            [] state = "S_QUOTING" ->
                 IF c = "'" THEN go("BEGIN", count) ELSE go(state, count)
            [] state = "D_QUOTING" ->
                 IF c = "\"" THEN go("BEGIN", count)
                 ELSE go(state, count)
            [] state = "R_QUOTING" ->
                 IF c = "/" THEN go("BEGIN", count)
                 ELSE IF c = "\\" THEN escape
                 ELSE go(state, count)

\* The loop of line_pos(): the state and the count at the end, or ret1 when
\* the function returns 1 from inside the loop.
RECURSIVE line_pos_loop(_, _, _, _, _, _, _)
line_pos_loop(m, begin, end, sep, rquoting, state, count) ==
  IF begin = end THEN [ret1 |-> FALSE, state |-> state, count |-> count]
  ELSE LET c == At(m, begin)
           go(st, cnt) ==
             line_pos_loop(m, begin + 1, end, sep, rquoting, st, cnt)
           escape ==
             IF begin + 1 = end
             THEN [ret1 |-> TRUE, state |-> state, count |-> count]
             ELSE line_pos_loop(m, begin + 2, end, sep, rquoting, state,
                                count)
       IN CASE state = "BEGIN" ->
                 IF sep = " " /\ c = "'" THEN go("S_QUOTING", count)
                 ELSE IF sep = " " /\ c = "\"" THEN go("D_QUOTING", count)
                 ELSE IF sep = " " /\ c = "/" /\ rquoting
                 THEN go("R_QUOTING", count)
                 ELSE IF c = "&" /\ begin = end - 1 THEN go("BEGIN", count)
                 ELSE IF c # sep THEN go("NO_QUOTING", count)
                 ELSE go("BEGIN", count)
            [] state = "NO_QUOTING" ->
                 IF c = sep THEN go("BEGIN", count + 1)
                 ELSE IF c = "'" THEN go("S_QUOTING", count)
                 ELSE IF c = "\"" THEN go("D_QUOTING", count)
                 ELSE IF c = "\\" THEN escape
                 ELSE go(state, count)
            [] state = "S_QUOTING" ->
                 IF c = "'" THEN go("BEGIN", count) ELSE go(state, count)
            [] state = "D_QUOTING" ->
                 IF c = "\"" THEN go("BEGIN", count)
                 ELSE IF c = "\\" THEN escape
                 ELSE go(state, count)
            [] state = "R_QUOTING" ->
                 IF c = "/" THEN go("BEGIN", count)
                 ELSE IF c = "\\" THEN escape
                 ELSE go(state, count)

\* line_pos() without the upper limit on the separators crossed.
line_pos_AnyCount(m, begin, end, sep, rquoting) ==
  LET r == line_pos_loop(m, begin, end, sep, rquoting, "BEGIN", 0) IN
  IF r.ret1 THEN 1
  ELSE IF r.state = "NO_QUOTING"
  THEN IF sep = " " THEN (IF r.count > 0 THEN 2 ELSE 0)
       ELSE IF r.count > 0 THEN 2
       ELSE 0
  ELSE IF r.state # "BEGIN"
  THEN CASE r.state = "S_QUOTING" -> 3
         [] r.state = "D_QUOTING" -> 4
         [] r.state = "R_QUOTING" -> 5
  ELSE IF sep # " " /\ r.count > 0 /\ At(m, end) # sep THEN 2
  ELSE 0

line_pos(m, begin, end, sep, rquoting) ==
  LET r == line_pos_loop(m, begin, end, sep, rquoting, "BEGIN", 0) IN
  IF r.ret1 THEN 1
  ELSE IF r.state = "NO_QUOTING"
  THEN IF sep = " " THEN (IF r.count > 0 THEN 2 ELSE 0)
       ELSE IF r.count > 0 /\ r.count < 3 THEN 2
       ELSE 0
  ELSE IF r.state # "BEGIN"
  THEN CASE r.state = "S_QUOTING" -> 3
         [] r.state = "D_QUOTING" -> 4
         [] r.state = "R_QUOTING" -> 5
  ELSE IF sep # " " /\ r.count > 0 /\ At(m, end) # sep THEN 2
  ELSE 0

\* get_cmdline_location() that takes the code 1 for out of an argument.
get_cmdline_location_OneIsOut(m, cmd, pos) ==
  LET info == get_cmd_info(m, cmd)
      separator == IF info.id \in {"COM_SUBSTITUTE", "COM_TR"} THEN info.sep
                   ELSE " "
      regex_quoting == info.id \in {"COM_FILTER", "COM_SUBSTITUTE", "COM_TR"}
      lp == line_pos(m, cmd, pos, separator, regex_quoting)
  IN CASE lp \in {0, 1} -> "CLL_OUT_OF_ARG"
       [] lp = 2 -> "CLL_NO_QUOTING"
       [] lp = 3 -> "CLL_S_QUOTING"
       [] lp = 4 -> "CLL_D_QUOTING"
       [] lp = 5 -> "CLL_R_QUOTING"

get_cmdline_location(m, cmd, pos) ==
  LET info == get_cmd_info(m, cmd)
      separator == IF info.id \in {"COM_SUBSTITUTE", "COM_TR"} THEN info.sep
                   ELSE " "
      regex_quoting == info.id \in {"COM_FILTER", "COM_SUBSTITUTE", "COM_TR"}
      lp == line_pos(m, cmd, pos, separator, regex_quoting)
  IN CASE lp = 0 -> "CLL_OUT_OF_ARG"
       [] lp \in {1, 2} -> "CLL_NO_QUOTING"
       [] lp = 3 -> "CLL_S_QUOTING"
       [] lp = 4 -> "CLL_D_QUOTING"
       [] lp = 5 -> "CLL_R_QUOTING"

is_out_of_arg(m, cmd, pos) ==
  get_cmdline_location(m, cmd, pos) = "CLL_OUT_OF_ARG"

(***************************************************************************)
(* break_cmdline(), one action per pass of its loop.  What lies behind     *)
(* cmdline_copy is not defined by the program: when raw leaves the buffer  *)
(* the memory behind it is MaxSlack arbitrary bytes and a zero byte, or    *)
(* the access faults (pc = "crash").                                       *)
(***************************************************************************)
Ex_cmd1_cmd2 == <<"c", "m", "d", "1", "|", "c", "m", "d", "2">>
Ex_cmd1_esc_cmd2 == <<"c", "m", "d", "1", "\\", "|", "c", "m", "d", "2">>
Ex_echo_or == <<"e", "c", "h", "o", " ", "1", "|", "|", "2", "|",
                "c", "m", "d", "2">>
Ex_echo_or_spaced == <<"e", "c", "h", "o", " ", "1", " ", "|", "|", " ", "2",
                       " ", "|", " ", "c", "m", "d", "2">>
Ex_map == <<"m", "a", "p", " ", "a", " ", "b", "|", "c">>
Ex_colons == <<":", " ", ":", "c", " ", "c">>
Ex_only_colons == <<" ", ":", " ">>
Ex_comment == <<"\"", " ", "c", "|", "c">>
Ex_escapes == <<"c", "\\", "c", "|", "c", "\\", "|", "c">>

Ex_or_quoted == <<"e", " ", "|", "|", "'", "|", "'">>

Examples == {Ex_cmd1_cmd2, Ex_cmd1_esc_cmd2, Ex_echo_or, Ex_echo_or_spaced,
             Ex_map, Ex_colons, Ex_only_colons, Ex_comment, Ex_escapes,
             Ex_or_quoted}

Lines == UNION {[1..n -> Alphabet] : n \in 0..MaxLen} \cup Examples

NoTrace == [oob |-> FALSE, splits |-> <<>>]

\* Lines 814-843: the empty line is returned as it is, any other line is
\* copied and the first command is looked up.
BreakStart ==
  /\ pc = "start"
  /\ IF line = <<>>
     THEN /\ cmds' = <<line>>
          /\ pc' = "done"
          /\ UNCHANGED <<mem, size, raw, processed, cmdline, args_kind>>
     ELSE LET cmdline_copy == line \o <<NUL>> IN
          /\ mem' = cmdline_copy
          /\ size' = Len(line) + 1
          /\ raw' = 1
          /\ processed' = 1
          /\ cmdline' = skip_to_cmd_name(cmdline_copy, 1)
          /\ args_kind' = get_cmd_args_type(cmdline_copy, cmdline')
          /\ cmds' = <<>>
          /\ pc' = "loop"
  /\ UNCHANGED <<line, trace>>
  /\ UNCHANGED <<gateVars, callVars>>

InLoop == pc = "loop" /\ At(mem, cmdline) # NUL /\ raw <= Len(mem)

\* Line 850: the loop ends when cmdline points to the end of the string.
LoopExit ==
  /\ pc = "loop"
  /\ At(mem, cmdline) = NUL
  /\ pc' = "done"
  /\ UNCHANGED <<mem, size, raw, processed, cmdline, args_kind, cmds, line,
                 trace>>
  /\ UNCHANGED <<gateVars, callVars>>

\* The backslash branch that copies \| like any other pair.
LoopEscape_KeepsBackslash ==
  /\ InLoop
  /\ args_kind = "CAT_REGULAR" /\ mem[raw] = "\\"
  /\ LET m1 == [mem EXCEPT ![processed] = mem[raw]]
         m2 == [m1 EXCEPT ![processed + 1] = m1[raw + 1]]
     IN /\ processed' = processed + 2
        /\ raw' = raw + 2
        /\ IF raw + 2 > size /\ ~trace.oob
           THEN \/ \E junk \in [1..MaxSlack -> Byte] :
                     /\ mem' = m2 \o junk \o <<NUL>>
                     /\ trace' = [trace EXCEPT !.oob = TRUE]
                     /\ UNCHANGED pc
                \/ /\ pc' = "crash"
                   /\ mem' = m2
                   /\ trace' = [trace EXCEPT !.oob = TRUE]
           ELSE /\ mem' = m2
                /\ UNCHANGED <<pc, trace>>
  /\ UNCHANGED <<size, cmdline, args_kind, cmds, line>>
  /\ UNCHANGED <<gateVars, callVars>>

\* Lines 852-864: a backslash in a regular command.
LoopEscape ==
  /\ InLoop
  /\ args_kind = "CAT_REGULAR" /\ mem[raw] = "\\"
  /\ IF At(mem, raw + 1) = "|"
     THEN /\ mem' = [mem EXCEPT ![processed] = "|"]
          /\ processed' = processed + 1
          /\ raw' = raw + 2
          /\ UNCHANGED <<pc, trace>>
     ELSE LET m1 == [mem EXCEPT ![processed] = mem[raw]]
              m2 == [m1 EXCEPT ![processed + 1] = m1[raw + 1]]
          IN /\ processed' = processed + 2
             /\ raw' = raw + 2
             /\ IF raw + 2 > size /\ ~trace.oob
                THEN \/ \E junk \in [1..MaxSlack -> Byte] :
                          /\ mem' = m2 \o junk \o <<NUL>>
                          /\ trace' = [trace EXCEPT !.oob = TRUE]
                          /\ UNCHANGED pc
                     \/ /\ pc' = "crash"
                        /\ mem' = m2
                        /\ trace' = [trace EXCEPT !.oob = TRUE]
                ELSE /\ mem' = m2
                     /\ UNCHANGED <<pc, trace>>
  /\ UNCHANGED <<size, cmdline, args_kind, cmds, line>>
  /\ UNCHANGED <<gateVars, callVars>>

\* The breaking point that stays at the first | of a ||.
expr_break_NoSkip(m, p) == p

\* Lines 883-888: the breaking point of an expression command moves over
\* every || that is not followed by a third |.
RECURSIVE expr_break(_, _)
expr_break(m, p) ==
  IF At(m, p) = "|" /\ At(m, p + 1) = "|" /\ At(m, p + 2) # "|"
  THEN expr_break(m, until_first(m, p + 2, "|"))
  ELSE p

\* What is observed of a split: the character the sub-command ends at (c when
\* the breaking point did not move from p to p2) and what
\* get_cmdline_location() says of the breaking point.
SplitPoint(m, c, p, p2) ==
  [at |-> IF p2 = p THEN c ELSE At(m, p2),
   moved |-> p2 # p,
   loc |-> get_cmdline_location(m, cmdline, p2)]

\* The end of a sub-command that cuts a whole line command at the | too.
LoopSplit_CutsWholeLine ==
  /\ InLoop
  /\ ~(args_kind = "CAT_REGULAR" /\ mem[raw] = "\\")
  /\ \/ mem[raw] = "|" /\ is_out_of_arg(mem, cmdline, processed)
     \/ mem[raw] = NUL
  /\ LET raw1 == IF mem[raw] # NUL THEN raw + 1 ELSE raw
         m1 == IF mem[raw] # NUL THEN mem
               ELSE [mem EXCEPT ![processed] = NUL]
         p2 == IF args_kind = "CAT_EXPR" THEN expr_break(m1, processed)
               ELSE processed
         raw2 == IF p2 = processed THEN raw1
                 ELSE IF At(m1, p2) = NUL THEN p2 ELSE p2 + 1
         m2 == [m1 EXCEPT ![p2] = NUL]
     IN /\ mem' = m2
        /\ cmds' = Append(cmds, CStr(m2, cmdline))
        /\ trace' = [trace EXCEPT !.splits =
                       Append(@, SplitPoint(m1, mem[raw], processed, p2))]
        /\ IF args_kind = "CAT_UNTIL_THE_END"
           THEN /\ pc' = "done"
                /\ raw' = raw1
                /\ UNCHANGED <<processed, cmdline, args_kind>>
           ELSE /\ raw' = raw2
                /\ processed' = raw2
                /\ cmdline' = skip_to_cmd_name(m2, raw2)
                /\ args_kind' = get_cmd_args_type(m2, cmdline')
                /\ UNCHANGED pc
  /\ UNCHANGED <<size, line>>
  /\ UNCHANGED <<gateVars, callVars>>

\* Lines 865-906: the end of a sub-command.
LoopSplit ==
  /\ InLoop
  /\ ~(args_kind = "CAT_REGULAR" /\ mem[raw] = "\\")
  /\ \/ mem[raw] = "|" /\ is_out_of_arg(mem, cmdline, processed)
     \/ mem[raw] = NUL
  /\ LET raw1 == IF mem[raw] # NUL THEN raw + 1 ELSE raw
         m1 == IF mem[raw] # NUL THEN mem
               ELSE [mem EXCEPT ![processed] = NUL]
         p2 == IF args_kind = "CAT_EXPR" THEN expr_break(m1, processed)
               ELSE processed
         raw2 == IF p2 = processed THEN raw1
                 ELSE IF At(m1, p2) = NUL THEN p2 ELSE p2 + 1
         m2 == IF args_kind # "CAT_UNTIL_THE_END"
               THEN [m1 EXCEPT ![p2] = NUL]
               ELSE m1
     IN /\ mem' = m2
        /\ cmds' = Append(cmds, CStr(m2, cmdline))
        /\ trace' = [trace EXCEPT !.splits =
                       Append(@, SplitPoint(m1, mem[raw], processed, p2))]
        /\ IF args_kind = "CAT_UNTIL_THE_END"
           THEN /\ pc' = "done"
                /\ raw' = raw1
                /\ UNCHANGED <<processed, cmdline, args_kind>>
           ELSE /\ raw' = raw2
                /\ processed' = raw2
                /\ cmdline' = skip_to_cmd_name(m2, raw2)
                /\ args_kind' = get_cmd_args_type(m2, cmdline')
                /\ UNCHANGED pc
  /\ UNCHANGED <<size, line>>
  /\ UNCHANGED <<gateVars, callVars>>

\* Lines 907-910: any other character is copied.
LoopCopy ==
  /\ InLoop
  /\ ~(args_kind = "CAT_REGULAR" /\ mem[raw] = "\\")
  /\ ~(mem[raw] = "|" /\ is_out_of_arg(mem, cmdline, processed))
  /\ mem[raw] # NUL
  /\ mem' = [mem EXCEPT ![processed] = mem[raw]]
  /\ processed' = processed + 1
  /\ raw' = raw + 1
  /\ UNCHANGED <<pc, size, cmdline, args_kind, cmds, line, trace>>
  /\ UNCHANGED <<gateVars, callVars>>

\* raw is behind the memory that the model gives a value to.
LoopFault ==
  /\ pc = "loop"
  /\ At(mem, cmdline) # NUL
  /\ raw > Len(mem)
  /\ pc' = "crash"
  /\ UNCHANGED <<mem, size, raw, processed, cmdline, args_kind, cmds, line,
                 trace>>
  /\ UNCHANGED <<gateVars, callVars>>

SplitInit ==
  /\ GateInit
  /\ pc = "start"
  /\ line \in Lines
  /\ mem = <<>>
  /\ size = 0
  /\ raw = 0
  /\ processed = 0
  /\ cmdline = 0
  /\ args_kind = "CAT_REGULAR"
  /\ cmds = <<>>
  /\ trace = NoTrace
  /\ CallIdle

NextSplit ==
  \/ BreakStart
  \/ LoopExit
  \/ LoopEscape
  \/ LoopSplit
  \/ LoopCopy
  \/ LoopFault

SpecSplit == SplitInit /\ [][NextSplit]_vars

(***************************************************************************)
(* exec_commands(): break_cmdline(), then exec_command() on every          *)
(* sub-command.  What exec_command() returns is decided by the command,    *)
(* here it is any value of Rets.                                           *)
(***************************************************************************)
MaxExecLen == 4

Rets == {-2, -1, 0, 1, 2}

Ex_lone_backslash == <<"c", "\\">>

ExecLines ==
  UNION {[1..n -> {"c", " ", "|"}] : n \in 0..MaxExecLen}
    \cup Examples \cup {Ex_lone_backslash}

\* save_msg written from a result whatever it is.
save_msg_after_Raw(save_msg, ret) == ret

\* Lines 797-800.
save_msg_after(save_msg, ret) ==
  IF ret # 0 THEN (IF ret < 0 THEN -1 ELSE 1) ELSE save_msg

\* Lines 790-792: save_msg is 0 and break_cmdline() is called.
ExecInit ==
  /\ GateInit
  /\ pc = "start"
  /\ line \in ExecLines
  /\ mem = <<>>
  /\ size = 0
  /\ raw = 0
  /\ processed = 0
  /\ cmdline = 0
  /\ args_kind = "CAT_REGULAR"
  /\ cmds = <<>>
  /\ trace = NoTrace
  /\ CallIdle

\* Line 792: cmd points to the first sub-command.
ExecBegin ==
  /\ pc = "done"
  /\ pc' = "exec"
  /\ ex' = [ex EXCEPT !.cmd = 1]
  /\ UNCHANGED <<mem, size, raw, processed, cmdline, args_kind, cmds, line,
                 trace, ev, cl, viewVars>>
  /\ UNCHANGED gateVars

\* A pass of the loop that leaves the loop when exec_command() fails.
ExecStep_StopsOnError ==
  /\ pc = "exec"
  /\ ex.cmd <= Len(cmds)
  /\ \E ret \in Rets :
       ex' = [cmd |-> IF ret < 0 THEN Len(cmds) + 1 ELSE ex.cmd + 1,
              save_msg |-> save_msg_after(ex.save_msg, ret),
              ran |-> Append(ex.ran, cmds[ex.cmd]),
              rets |-> Append(ex.rets, ret)]
  /\ UNCHANGED <<splitVars, ev, cl, viewVars>>
  /\ UNCHANGED gateVars

\* Lines 794-803: one pass of the loop.
ExecStep ==
  /\ pc = "exec"
  /\ ex.cmd <= Len(cmds)
  /\ \E ret \in Rets :
       ex' = [cmd |-> ex.cmd + 1,
              save_msg |-> save_msg_after(ex.save_msg, ret),
              ran |-> Append(ex.ran, cmds[ex.cmd]),
              rets |-> Append(ex.rets, ret)]
  /\ UNCHANGED <<splitVars, ev, cl, viewVars>>
  /\ UNCHANGED gateVars

\* Lines 794, 804-806: *cmd is NULL, save_msg is returned.
ExecReturn ==
  /\ pc = "exec"
  /\ ex.cmd > Len(cmds)
  /\ pc' = "returned"
  /\ UNCHANGED <<mem, size, raw, processed, cmdline, args_kind, cmds, line,
                 trace, ex, ev, cl, viewVars>>
  /\ UNCHANGED gateVars

NextExec ==
  \/ BreakStart
  \/ LoopExit
  \/ LoopEscape
  \/ LoopSplit
  \/ LoopCopy
  \/ LoopFault
  \/ ExecBegin
  \/ ExecStep
  \/ ExecReturn

SpecExec == ExecInit /\ [][NextExec]_vars

(***************************************************************************)
(* The quoting classifier on its own: line_pos() and                       *)
(* get_cmdline_location() applied to a text and a position in it.          *)
(***************************************************************************)
MaxClassLen == 4

ClassAlphabet == {"c", " ", "/", "'", "\"", "\\"}

Ex_sub2 == <<"s", "/", "c", "/", "c">>
Ex_sub3 == <<"s", "/", "c", "/", "c", "/", "c">>
Ex_sub4 == <<"s", "/", "c", "/", "c", "/", "c", "/", "c">>
Ex_filter == <<"f", "i", "l", " ", "/", "c", "\\", "/", "c", "/", "c">>

ClassTexts ==
  UNION {[1..n -> ClassAlphabet] : n \in 0..MaxClassLen}
    \cup {Ex_sub2, Ex_sub3, Ex_sub4, Ex_filter}

\* A call of line_pos(begin, end, sep, rquoting) or of
\* get_cmdline_location(cmd, pos) with begin = cmd the start of the text.
ClassifyInit ==
  /\ GateInit
  /\ SplitIdle
  /\ ex = NoExec
  /\ ev = NoEval
  /\ xc = NoCmd /\ sr = NoRange /\ ft = NoAssoc
  /\ \E text \in ClassTexts :
       \E end \in 1..Len(text) + 1 :
         \E sep \in {" ", "/"} :
           \E rquoting \in BOOLEAN :
             cl = [pc |-> "start", text |-> text, end |-> end, sep |-> sep,
                   rquoting |-> rquoting]

\* Lines 678-785.
CallLinePos ==
  /\ cl.pc = "start"
  /\ cl' = [pc |-> "line_pos", text |-> cl.text, end |-> cl.end,
            sep |-> cl.sep, rquoting |-> cl.rquoting,
            ret |-> line_pos(cl.text \o <<NUL>>, 1, cl.end, cl.sep,
                             cl.rquoting)]
  /\ UNCHANGED <<gateVars, splitVars, ex, ev, viewVars>>

\* Lines 927-967.
CallGetCmdlineLocation ==
  /\ cl.pc = "start"
  /\ cl' = [pc |-> "location", text |-> cl.text, end |-> cl.end,
            sep |-> cl.sep, rquoting |-> cl.rquoting,
            ret |-> get_cmdline_location(cl.text \o <<NUL>>, 1, cl.end)]
  /\ UNCHANGED <<gateVars, splitVars, ex, ev, viewVars>>

NextClassify ==
  \/ CallLinePos
  \/ CallGetCmdlineLocation

SpecClassify == ClassifyInit /\ [][NextClassify]_vars

(***************************************************************************)
(* eval_arglist().  The expression parser (engine/parsing.c) is modelled   *)
(* for a language of two kinds of expressions, numbers and '...' strings:  *)
(* parse() takes one expression and the whitespace behind it; at the end   *)
(* of the text it succeeds, before more text it reports an invalid         *)
(* expression, with whitespace as the previous token when there was some.  *)
(***************************************************************************)
MaxEvalLen == 4

EvalAlphabet == {"1", "2", " ", "'", "x"}

Digits == {"1", "2"}

Ex_eval_1_2 == <<"1", " ", "2">>
Ex_eval_wide == <<"1", " ", " ", " ", "2", " ">>
Ex_eval_empty == <<"'", "'", " ", "1", " ", "'", "'", " ", "2">>

\* eval_arglist() is not called with an empty text; the command dispatcher
\* hands over arguments without leading whitespace.
EvalTexts ==
  {t \in UNION {[1..n -> EvalAlphabet] : n \in 1..MaxEvalLen} :
     ~isspace(t[1])}
    \cup {Ex_eval_1_2, Ex_eval_wide, Ex_eval_empty}

RECURSIVE skip_whitespace(_, _)
skip_whitespace(m, i) ==
  IF isspace(At(m, i)) THEN skip_whitespace(m, i + 1) ELSE i

RECURSIVE NumEnd(_, _)
NumEnd(m, i) == IF At(m, i) \in Digits THEN NumEnd(m, i + 1) ELSE i

\* One expression at m[a]: its value and the position behind it.
parse_expr(m, a) ==
  IF At(m, a) \in Digits
  THEN [ok |-> TRUE, value |-> SubSeq(m, a, NumEnd(m, a) - 1),
        stop |-> NumEnd(m, a)]
  ELSE IF At(m, a) = "'" /\ At(m, until_first(m, a + 1, "'")) = "'"
  THEN [ok |-> TRUE,
        value |-> SubSeq(m, a + 1, until_first(m, a + 1, "'") - 1),
        stop |-> until_first(m, a + 1, "'") + 1]
  ELSE [ok |-> FALSE, value |-> <<>>, stop |-> a]

\* parse(), with what is_prev_token_whitespace(), get_last_position() and
\* get_last_parsed_char() (between from and to) say after it.
parse(m, a) ==
  LET e == parse_expr(m, a)
      c == skip_whitespace(m, e.stop)
  IN IF ~e.ok
     THEN [error |-> "PE_INVALID_EXPRESSION", prev_ws |-> FALSE,
           result |-> <<>>, from |-> a, to |-> a]
     ELSE IF At(m, c) = NUL
     THEN [error |-> "PE_NO_ERROR", prev_ws |-> c > e.stop,
           result |-> e.value, from |-> c, to |-> c]
     ELSE [error |-> "PE_INVALID_EXPRESSION", prev_ws |-> c > e.stop,
           result |-> e.value, from |-> e.stop, to |-> c]

is_null_or_empty(s) == s.null \/ s.str = <<>>

\* extend_string() that always puts the separator.
extend_result_AlwaysSpace(eval_result, tmp_result) ==
  [null |-> FALSE, str |-> eval_result.str \o <<" ">> \o tmp_result]

\* Lines 1265-1269.
extend_result(eval_result, tmp_result) ==
  [null |-> FALSE,
   str |-> (IF ~is_null_or_empty(eval_result)
            THEN eval_result.str \o <<" ">>
            ELSE eval_result.str) \o tmp_result]

NullStr == [null |-> TRUE, str |-> <<>>]

\* Lines 1237-1240.
EvalInit ==
  /\ GateInit
  /\ SplitIdle
  /\ ex = NoExec
  /\ cl = NoClassify
  /\ xc = NoCmd /\ sr = NoRange /\ ft = NoAssoc
  /\ \E t \in EvalTexts :
       ev = [pc |-> "loop", text |-> t, args |-> 1, eval_result |-> NullStr,
             results |-> <<>>, ret |-> NullStr, stop_ptr |-> 0]

\* Lines 1242-1275: a pass of the loop with an expression that is taken.
EvalTake ==
  /\ ev.pc = "loop"
  /\ At(ev.text \o <<NUL>>, ev.args) # NUL
  /\ LET m == ev.text \o <<NUL>>
         p == parse(m, ev.args)
     IN /\ \/ p.error = "PE_INVALID_EXPRESSION" /\ p.prev_ws
           \/ p.error = "PE_NO_ERROR"
        /\ \E last_parsed \in p.from..p.to :
             ev' = [ev EXCEPT
                      !.eval_result = extend_result(ev.eval_result, p.result),
                      !.results = Append(@, p.result),
                      !.args = skip_whitespace(m, last_parsed)]
  /\ UNCHANGED <<gateVars, splitVars, ex, cl, viewVars>>

\* Lines 1242-1263: a pass of the loop with an expression that is rejected.
EvalBreak ==
  /\ ev.pc = "loop"
  /\ At(ev.text \o <<NUL>>, ev.args) # NUL
  /\ LET p == parse(ev.text \o <<NUL>>, ev.args)
     IN /\ p.error # "PE_NO_ERROR"
        /\ ~(p.error = "PE_INVALID_EXPRESSION" /\ p.prev_ws)
  /\ ev' = [ev EXCEPT !.pc = "after"]
  /\ UNCHANGED <<gateVars, splitVars, ex, cl, viewVars>>

\* Line 1242: the text is exhausted.
EvalLoopEnd ==
  /\ ev.pc = "loop"
  /\ At(ev.text \o <<NUL>>, ev.args) = NUL
  /\ ev' = [ev EXCEPT !.pc = "after"]
  /\ UNCHANGED <<gateVars, splitVars, ex, cl, viewVars>>

\* The end of eval_arglist() that hands out what was collected on failure.
EvalReturn_KeepsPartial ==
  /\ ev.pc = "after"
  /\ ev' = [ev EXCEPT !.pc = "returned", !.ret = ev.eval_result,
                      !.stop_ptr = ev.args]
  /\ UNCHANGED <<gateVars, splitVars, ex, cl, viewVars>>

\* Lines 1277-1287.
EvalReturn ==
  /\ ev.pc = "after"
  /\ IF At(ev.text \o <<NUL>>, ev.args) = NUL
     THEN ev' = [ev EXCEPT !.pc = "returned", !.ret = ev.eval_result]
     ELSE ev' = [ev EXCEPT !.pc = "returned", !.ret = NullStr,
                           !.eval_result = NullStr, !.stop_ptr = ev.args]
  /\ UNCHANGED <<gateVars, splitVars, ex, cl, viewVars>>

NextEval ==
  \/ EvalTake
  \/ EvalBreak
  \/ EvalLoopEnd
  \/ EvalReturn

SpecEval == EvalInit /\ [][NextEval]_vars

(***************************************************************************)
(* execute_command(): one sub-command from its text to its status, with    *)
(* the selection of the view and the messages of the status bar.           *)
(***************************************************************************)
MaxCmdDepth == 1
MaxSelected == 1
MaxResult == 1

\* COM_GOTO is the one id post() tells apart from the others.
ViewCmdIds == CmdIds \cup {"COM_GOTO"}
Modes == {"NORMAL_MODE", "VISUAL_MODE"}

\* The error codes the switch of execute_command() names, in its order; the
\* code of ErrNames[k] is -k and UnknownErr is a code the switch does not
\* name.
ErrNames ==
  <<"CMDS_ERR_LOOP", "CMDS_ERR_NO_MEM", "CMDS_ERR_TOO_FEW_ARGS",
    "CMDS_ERR_TRAILING_CHARS", "CMDS_ERR_INCORRECT_NAME",
    "CMDS_ERR_NEED_BANG", "CMDS_ERR_NO_BUILTIN_REDEFINE",
    "CMDS_ERR_INVALID_CMD", "CMDS_ERR_NO_BANG_ALLOWED",
    "CMDS_ERR_NO_RANGE_ALLOWED", "CMDS_ERR_NO_QMARK_ALLOWED",
    "CMDS_ERR_INVALID_RANGE", "CMDS_ERR_NO_SUCH_UDF",
    "CMDS_ERR_UDF_IS_AMBIGUOUS", "CMDS_ERR_ZERO_COUNT",
    "CMDS_ERR_INVALID_ARG", "CMDS_ERR_CUSTOM">>
CMDS_ERR(name) == -(CHOOSE k \in 1..Len(ErrNames) : ErrNames[k] = name)
UnknownErr == -(Len(ErrNames) + 1)
Results == UnknownErr..MaxResult

\* What each case of the switch passes to status_bar_error().
SwitchMessages ==
  [CMDS_ERR_LOOP |-> <<"Loop in commands">>,
   CMDS_ERR_NO_MEM |-> <<"Unable to allocate enough memory">>,
   CMDS_ERR_TOO_FEW_ARGS |-> <<"Too few arguments">>,
   CMDS_ERR_TRAILING_CHARS |-> <<"Trailing characters">>,
   CMDS_ERR_INCORRECT_NAME |-> <<"Incorrect command name">>,
   CMDS_ERR_NEED_BANG |-> <<"Add bang to force">>,
   CMDS_ERR_NO_BUILTIN_REDEFINE |-> <<"Can't redefine builtin command">>,
   CMDS_ERR_INVALID_CMD |-> <<"Invalid command name">>,
   CMDS_ERR_NO_BANG_ALLOWED |-> <<"No ! is allowed">>,
   CMDS_ERR_NO_RANGE_ALLOWED |-> <<"No range is allowed">>,
   CMDS_ERR_NO_QMARK_ALLOWED |-> <<"No ? is allowed">>,
   CMDS_ERR_INVALID_RANGE |-> <<>>,
   CMDS_ERR_NO_SUCH_UDF |-> <<"No such user defined command">>,
   CMDS_ERR_UDF_IS_AMBIGUOUS |-> <<"Ambiguous use of user-defined command">>,
   CMDS_ERR_ZERO_COUNT |-> <<"Zero count">>,
   CMDS_ERR_INVALID_ARG |-> <<"Invalid argument">>,
   CMDS_ERR_CUSTOM |-> <<>>]

\* The switch without its default case.
error_messages_NoDefault(result) ==
  IF -result \in 1..Len(ErrNames) THEN SwitchMessages[ErrNames[-result]]
  ELSE <<>>

\* The messages the switch posts for a negative result.
error_messages(result) ==
  IF -result \in 1..Len(ErrNames) THEN SwitchMessages[ErrNames[-result]]
  ELSE <<"Unknown error">>

\* selected_files of the view after remove_selection().
remove_selection(selected) == IF selected = 0 THEN selected ELSE 0

\* post() that clears the selection whatever the flag is.
post_IgnoresFlag(id, selected, keep) ==
  IF id # "COM_GOTO" /\ selected > 0 THEN 0 ELSE selected

\* selected_files of the current view after post().
post(id, selected, keep) ==
  IF id # "COM_GOTO" /\ selected > 0 /\ ~keep THEN 0 ELSE selected

\* The results of execute_cmd() that are not an error of the engine itself:
\* what a handler returns.
HandlerResults == {CMDS_ERR("CMDS_ERR_CUSTOM")} \cup (0..MaxResult)
EngineErrors == {r \in Results : r < 0} \ HandlerResults

\* execute_cmd() of the engine.  An error of the engine itself (hres in
\* EngineErrors) is returned before any callback or handler runs.  Otherwise
\* the handler of the command runs and then, when the configuration of this
\* unit is the active one (not in a menu), its post() callback.  A
\* conditional command fails with CMDS_ERR_CUSTOM when its cmds_scoped_*
\* function refuses; any other handler returns hres, leaves the selection
\* to post() and has called cmds_preserve_selection() iff hkeep.
execute_cmd(levels, keep, selected, id, cond, menu, hres, hkeep) ==
  LET h == handler(levels, id, cond)
      is_cond == id \in CondCmdIds
      flag == keep \/ h.keep \/ (~is_cond /\ hkeep)
  IN IF ~is_cond /\ hres \in EngineErrors
     THEN [levels |-> levels, keep |-> keep, result |-> hres,
           selected |-> selected]
     ELSE [levels |-> h.levels,
           keep |-> flag,
           result |-> IF is_cond
                      THEN (IF h.ret = 0 THEN 0
                            ELSE CMDS_ERR("CMDS_ERR_CUSTOM"))
                      ELSE hres,
           selected |-> IF menu THEN selected
                        ELSE post(id, selected, flag)]

\* What is recorded of a call of execute_command(): its arguments, the state
\* it started from, whether a handler was dispatched and with which flag,
\* the handler's result, the posted messages, the returned value and the
\* selection it left.
CmdObs(op, id, cond, menu, mode, disp, kstart, res, msgs, ret, sel) ==
  [op |-> op, id |-> id, cond |-> cond, menu |-> menu, mode |-> mode,
   dispatched |-> disp, keep_start |-> kstart, result |-> res,
   msgs |-> msgs, ret |-> ret,
   levels_before |-> if_levels, keep_before |-> keep_view_selection,
   selected_before |-> xc.selected_files,
   selected_files |-> sel]

CmdStart ==
  [op |-> "none", id |-> "COM_OTHER", cond |-> FALSE, menu |-> FALSE,
   mode |-> "NORMAL_MODE", dispatched |-> FALSE, keep_start |-> FALSE,
   result |-> 0, msgs |-> <<>>, ret |-> 0,
   levels_before |-> <<>>, keep_before |-> FALSE, selected_before |-> 0,
   selected_files |-> 0]

CmdFrame == UNCHANGED <<last, chains, done, splitVars, ex, ev, cl, sr, ft>>

CmdInit ==
  /\ GateInit /\ SplitIdle
  /\ ex = NoExec /\ ev = NoEval /\ cl = NoClassify
  /\ sr = NoRange /\ ft = NoAssoc
  /\ xc = CmdStart

\* The user selects or unselects files of the view between two commands.
UserSelects(n) ==
  /\ n # xc.selected_files
  /\ xc' = [CmdStart EXCEPT !.op = "user", !.selected_files = n,
                            !.selected_before = xc.selected_files]
  /\ UNCHANGED gateVars
  /\ CmdFrame

\* execute_command(view, NULL, menu).
execute_command_null(menu, mode) ==
  /\ xc' = CmdObs("null", "COM_OTHER", FALSE, menu, mode, FALSE, FALSE, 0,
                  <<>>, 0, remove_selection(xc.selected_files))
  /\ UNCHANGED gateVars
  /\ CmdFrame

\* execute_command() of a comment: the text after the leading whitespace
\* and colons starts with a double quote.
execute_command_comment(menu, mode) ==
  /\ xc' = CmdObs("comment", "COM_OTHER", FALSE, menu, mode, FALSE, FALSE, 0,
                  <<>>, 0, xc.selected_files)
  /\ UNCHANGED gateVars
  /\ CmdFrame

\* execute_command() of an empty command outside of a menu.
execute_command_empty(mode) ==
  /\ xc' = CmdObs("empty", "COM_OTHER", FALSE, FALSE, mode, FALSE, FALSE, 0,
                  <<>>, 0, remove_selection(xc.selected_files))
  /\ UNCHANGED gateVars
  /\ CmdFrame

\* execute_command() that resets the flag before it asks the gate.
execute_command_view_ResetsFirst(id, cond, menu, mode, hres, hkeep) ==
  LET g == cmd_should_be_processed(if_levels, skipped_nested_if_stmts, id)
      e == execute_cmd(if_levels, FALSE, xc.selected_files, id, cond, menu,
                       hres, hkeep)
  IN /\ (id = "COM_IF_STMT" /\ g.ret) => Len(if_levels) < MaxCmdDepth
     /\ g.skipped <= MaxSkip
     /\ skipped_nested_if_stmts' = g.skipped
     /\ IF ~g.ret
        THEN /\ if_levels' = if_levels
             /\ keep_view_selection' = FALSE
             /\ xc' = CmdObs("cmd", id, cond, menu, mode, FALSE, FALSE, 0,
                             <<>>, 0, xc.selected_files)
        ELSE /\ if_levels' = e.levels
             /\ keep_view_selection' = e.keep
             /\ xc' = CmdObs("cmd", id, cond, menu, mode, TRUE, FALSE,
                             e.result,
                             IF e.result >= 0 THEN <<>>
                             ELSE error_messages(e.result),
                             IF e.result >= 0 THEN e.result ELSE -1,
                             IF e.result < 0 /\ ~menu /\ mode = "NORMAL_MODE"
                             THEN remove_selection(e.selected)
                             ELSE e.selected)
     /\ UNCHANGED <<last, chains, done>>
     /\ CmdFrame

\* execute_command() of a command with a name: the gate, the reset of the
\* flag, execute_cmd(), the mapping of a negative result to messages and
\* the removal of the selection after a failure.
execute_command_view(id, cond, menu, mode, hres, hkeep) ==
  LET g == cmd_should_be_processed(if_levels, skipped_nested_if_stmts, id)
      e == execute_cmd(if_levels, FALSE, xc.selected_files, id, cond, menu,
                       hres, hkeep)
  IN /\ (id = "COM_IF_STMT" /\ g.ret) => Len(if_levels) < MaxCmdDepth
     /\ g.skipped <= MaxSkip
     /\ skipped_nested_if_stmts' = g.skipped
     /\ IF ~g.ret
        THEN /\ UNCHANGED <<if_levels, keep_view_selection>>
             /\ xc' = CmdObs("cmd", id, cond, menu, mode, FALSE, FALSE, 0,
                             <<>>, 0, xc.selected_files)
        ELSE /\ if_levels' = e.levels
             /\ keep_view_selection' = e.keep
             /\ xc' = CmdObs("cmd", id, cond, menu, mode, TRUE, FALSE,
                             e.result,
                             IF e.result >= 0 THEN <<>>
                             ELSE error_messages(e.result),
                             IF e.result >= 0 THEN e.result ELSE -1,
                             IF e.result < 0 /\ ~menu /\ mode = "NORMAL_MODE"
                             THEN remove_selection(e.selected)
                             ELSE e.selected)
     /\ UNCHANGED <<last, chains, done>>
     /\ CmdFrame

\* Whether the gate lets a command with this id through in this state.
Passes(id) ==
  cmd_should_be_processed(if_levels, skipped_nested_if_stmts, id).ret

NextCmd ==
  \/ \E n \in 0..MaxSelected : UserSelects(n)
  \/ \E menu \in BOOLEAN, mode \in Modes : execute_command_null(menu, mode)
  \/ \E menu \in BOOLEAN, mode \in Modes : execute_command_comment(menu, mode)
  \/ \E mode \in Modes : execute_command_empty(mode)
  \/ \E id \in CondCmdIds, cond, menu \in BOOLEAN, mode \in Modes :
       execute_command_view(id, cond, menu, mode, 0, FALSE)
  \/ \E id \in ViewCmdIds \ CondCmdIds, menu \in BOOLEAN, mode \in Modes :
       /\ ~Passes(id)
       /\ execute_command_view(id, FALSE, menu, mode, 0, FALSE)
  \/ \E menu \in BOOLEAN, mode \in Modes, hres \in EngineErrors :
       /\ Passes("COM_OTHER")
       /\ execute_command_view("COM_OTHER", FALSE, menu, mode, hres, FALSE)
  \/ \E id \in ViewCmdIds \ CondCmdIds, menu, hkeep \in BOOLEAN,
        mode \in Modes, hres \in HandlerResults :
       /\ Passes(id)
       /\ execute_command_view(id, FALSE, menu, mode, hres, hkeep)

SpecCmd == CmdInit /\ [][NextCmd]_vars

(***************************************************************************)
(* select_range(): the range of a command applied to the selection of the  *)
(* current view.  Rows are numbered from 0 as in the code; parent is the   *)
(* row of the entry is_parent_dir() accepts, -1 when the list has none.    *)
(***************************************************************************)
MaxRows == 3

RangeCmdIds == {"COM_FIND", "COM_GREP", "COM_OTHER"}

\* The views select_range() can find: a list (an empty one has its cursor
\* at row 0, outside of it), the cursor on one of its rows, nothing selected
\* yet.
Views ==
  {[list_rows |-> n, parent |-> p, list_pos |-> c, selected |-> {},
    selected_files |-> 0, user_selection |-> FALSE] :
     n \in 0..MaxRows, p \in -1..(MaxRows - 1), c \in 0..(MaxRows - 1)}

\* clean_selected_files(): no entry is selected any more.
clean_selected_files(v) == [v EXCEPT !.selected = {}, !.selected_files = 0]

\* The first loop that leaves no parent directory entry out.
rows_of_range_WithParent(v, begin, end) == begin..end

\* The rows the first loop marks: those of begin..end, but the parent
\* directory entry only when the range is that single row.
rows_of_range(v, begin, end) ==
  {x \in begin..end : ~(x = v.parent /\ begin # end)}

\* y of the first loop when it counts the entry it skips as well.
count_of_range_CountsSkipped(v, begin, end) == end - begin + 1

\* y after the first loop: one for each pass that does not continue.
count_of_range(v, begin, end) ==
  (end - begin + 1)
    - (IF begin # end /\ v.parent \in begin..end THEN 1 ELSE 0)

\* The rows the second and the third loop mark: the first of from..list_rows-1.
one_row(v, from) == {x \in from..(v.list_rows - 1) : x = from}

\* y after the second and the third loop: a pass is made when from is a row
\* of the list, and the next one breaks.
count_one(v, from) == IF from < v.list_rows THEN 1 ELSE 0

\* The test of the third branch without COM_FIND.
defaults_to_current_AlsoFind(id) == id # "COM_GREP"

\* The test of the third branch: the commands that take the current row
\* when no range is given.
defaults_to_current(id) == id # "COM_FIND" /\ id # "COM_GREP"

\* The end of select_range() without the write of user_selection.
mark_selection_Never(v) == v

\* The end of select_range().
mark_selection(v) ==
  IF v.selected_files > 0 THEN [v EXCEPT !.user_selection = FALSE] ELSE v

\* select_range(id, cmd_info) with cmd_info->begin and cmd_info->end.
select_range(v, id, begin, end) ==
  LET set(rows, y) == [clean_selected_files(v) EXCEPT
                         !.selected = rows, !.selected_files = y]
  IN IF begin > -1
     THEN mark_selection(set(rows_of_range(v, begin, end),
                             count_of_range(v, begin, end)))
     ELSE IF v.selected_files = 0
     THEN IF end > -1
          THEN mark_selection(set(one_row(v, end), count_one(v, end)))
          ELSE IF defaults_to_current(id)
          THEN mark_selection(set(one_row(v, v.list_pos),
                                  count_one(v, v.list_pos)))
          ELSE mark_selection(v)
     ELSE v

RangeFrame == UNCHANGED <<gateVars, splitVars, ex, ev, cl, xc, ft>>

RangeInit ==
  /\ GateInit /\ SplitIdle
  /\ ex = NoExec /\ ev = NoEval /\ cl = NoClassify
  /\ xc = NoCmd /\ ft = NoAssoc
  /\ \E v \in Views :
       /\ v.parent < v.list_rows
       /\ v.list_pos < v.list_rows \/ (v.list_rows = 0 /\ v.list_pos = 0)
       /\ sr = [pc |-> "idle", view |-> v, before |-> v, id |-> "COM_OTHER",
                begin |-> -1, end |-> -1]

\* The user selects or unselects a row of the view.
UserToggles(row) ==
  /\ row < sr.view.list_rows
  /\ LET rows == IF row \in sr.view.selected
                 THEN sr.view.selected \ {row}
                 ELSE sr.view.selected \cup {row}
         v == [sr.view EXCEPT !.selected = rows,
                              !.selected_files = Cardinality(rows),
                              !.user_selection = TRUE]
     IN sr' = [pc |-> "idle", view |-> v, before |-> v, id |-> "COM_OTHER",
               begin |-> -1, end |-> -1]
  /\ RangeFrame

\* A call of select_range() with a range the engine has resolved: both ends
\* given (rows of the list, begin <= end), the end only (a row of the list
\* or one behind it), or none.
SelectRange(id, begin, end) ==
  /\ begin > -1 => end < sr.view.list_rows
  /\ begin <= end
  /\ sr' = [pc |-> "returned", view |-> select_range(sr.view, id, begin, end),
            before |-> sr.view, id |-> id, begin |-> begin, end |-> end]
  /\ RangeFrame

NextRange ==
  \/ \E row \in 0..(MaxRows - 1) : UserToggles(row)
  \/ \E id \in RangeCmdIds, begin, end \in -1..(MaxRows - 1) :
       SelectRange(id, begin, end)

SpecRange == RangeInit /\ [][NextRange]_vars

(***************************************************************************)
(* filetype.c: add_assoc() and add_assoc_record() with allocations that    *)
(* can fail.  NullPtr is what strdup() returns when it fails.              *)
(***************************************************************************)
MaxAssocs == 2

NullPtr == "NULL"
AssocValues == {"a1", "a2"}
CommandTexts == {"c1", "c2"}
DescriptionTexts == {"d1"}
RecordTypes == {"ART_BUILTIN", "ART_CUSTOM"}

\* strdup(): a copy of the string, or a null pointer when out of memory.
strdup(str, ok) == IF ok THEN str ELSE NullPtr

AssocFrame == UNCHANGED <<gateVars, splitVars, ex, ev, cl, xc, sr>>

\* Both lists are empty (reset_all_file_associations() and the {} of
\* clone_assoc_records()); errors counts the calls of show_error_msg() of
\* the last call.
AssocInit ==
  /\ GateInit /\ SplitIdle
  /\ ex = NoExec /\ ev = NoEval /\ cl = NoClassify
  /\ xc = NoCmd /\ sr = NoRange
  /\ ft = [pc |-> "idle", assoc_list |-> <<>>, records |-> <<>>,
           new_records_type |-> "ART_CUSTOM", fn |-> "none",
           failed |-> FALSE, errors |-> 0, before |-> <<>>]

\* The callers switch new_records_type between the kinds of records.
SetRecordsType(t) ==
  /\ t # ft.new_records_type
  /\ ft' = [ft EXCEPT !.pc = "idle", !.new_records_type = t,
                      !.fn = "none", !.failed = FALSE, !.errors = 0,
                      !.before = <<>>]
  /\ AssocFrame

\* add_assoc(assoc_list, assoc); realloc_ok tells whether realloc() succeeds.
add_assoc(assoc, realloc_ok) ==
  /\ Len(ft.assoc_list) < MaxAssocs
  /\ ft' = [ft EXCEPT
              !.pc = "returned", !.fn = "add_assoc",
              !.failed = ~realloc_ok,
              !.errors = IF realloc_ok THEN 0 ELSE 1,
              !.before = ft.assoc_list,
              !.assoc_list = IF realloc_ok THEN Append(ft.assoc_list, assoc)
                             ELSE ft.assoc_list]
  /\ AssocFrame

\* add_assoc_record(records, command, description); the three flags tell
\* whether realloc() and the two calls of strdup() succeed.
add_assoc_record(command, description, realloc_ok, cmd_ok, descr_ok) ==
  /\ Len(ft.records) < MaxAssocs
  /\ ~realloc_ok => (cmd_ok /\ descr_ok)
  /\ ft' = [ft EXCEPT
              !.pc = "returned", !.fn = "add_assoc_record",
              !.failed = ~(realloc_ok /\ cmd_ok /\ descr_ok),
              !.errors = IF realloc_ok THEN 0 ELSE 1,
              !.before = ft.records,
              !.records =
                 IF realloc_ok
                 THEN Append(ft.records,
                        [command |-> strdup(command, cmd_ok),
                         description |-> strdup(description, descr_ok),
                         type |-> ft.new_records_type])
                 ELSE ft.records]
  /\ AssocFrame

NextAssoc ==
  \/ \E t \in RecordTypes : SetRecordsType(t)
  \/ \E assoc \in AssocValues, realloc_ok \in BOOLEAN :
       add_assoc(assoc, realloc_ok)
  \/ \E command \in CommandTexts, description \in DescriptionTexts,
        realloc_ok, cmd_ok, descr_ok \in BOOLEAN :
       add_assoc_record(command, description, realloc_ok, cmd_ok, descr_ok)

SpecAssoc == AssocInit /\ [][NextAssoc]_vars

(***************************************************************************)
(* Claims about the gate.                                                  *)
(***************************************************************************)
\* C1: of every well-formed if/elseif*/else/endif chain whose if went through
\* the gate, the ordinary commands of exactly one branch are executed (of at
\* most one branch when the chain has no else): an ordinary command of the
\* chain is executed iff its branch was entered with the gate open, and when
\* the endif is reached exactly one branch (at most one without else) was.
C1_ExactlyOneBranch ==
  /\ (done.valid /\ done.live /\ done.wf)
       => (done.nRun <= 1 /\ (done.hasElse => done.nRun = 1))
  /\ (last.op = "COM_OTHER" /\ InChain /\ Top(chains).live /\ Top(chains).wf)
       => (last.processed <=> Top(chains).cur)

\* C2: for an ordinary command the gate answers true iff the stack is empty
\* or its top is the scope guard, IF_MATCH or IF_ELSE.
C2_OrdinaryGate ==
  last.op = "COM_OTHER" =>
    (last.processed <=>
       (Len(last.before) = 0
        \/ Top(last.before) \in {"IF_SCOPE_GUARD", "IF_MATCH", "IF_ELSE"}))

C2_Witness ==
  /\ last.op = "COM_OTHER"
  /\ ~last.processed
  /\ Len(last.before) > 0
  /\ Top(last.before) = "IF_FINISH"

\* C3: in the first branch of an executed if whose condition was false the
\* nested conditionals leave if_levels as the if left it and no ordinary
\* command is executed; the endif of that chain pops its frame, so that
\* if_levels is again what it was before the if.
InFalseBranch(i) ==
  /\ ~chains[i].scope /\ chains[i].live /\ ~chains[i].cond0
  /\ chains[i].first /\ chains[i].wf
  /\ \A j \in i..Len(chains) : ~chains[j].scope /\ chains[j].wf

C3_NestedInFalseBranch ==
  /\ \A i \in 1..Len(chains) :
       InFalseBranch(i) =>
         /\ if_levels = Append(chains[i].stk0, "IF_BEFORE_MATCH")
         /\ last.op = "COM_OTHER" => ~last.processed
  /\ (done.valid /\ done.live /\ ~done.cond0 /\ done.wf)
       => if_levels = done.stk0

\* C4: elseif and else fail at scope bottom and after an else, endif fails at
\* scope bottom, and a failed call leaves if_levels as it was.
C4_ErrorsLeaveStack ==
  LET bottom == is_at_scope_bottom(last.before)
      afterElse == ~bottom /\ Top(last.before) \in {"IF_ELSE", "IF_FINISH"}
  IN /\ (last.op \in {"COM_ELSEIF_STMT", "COM_ELSE_STMT"} /\ last.processed)
          => /\ last.ret = 1 <=> (bottom \/ afterElse)
             /\ last.ret = 1 => if_levels = last.before
     /\ (last.op = "COM_ENDIF_STMT" /\ last.processed)
          => /\ last.ret = 1 <=> bottom
             /\ last.ret = 1 => if_levels = last.before

C4_Witness ==
  /\ last.op = "COM_ELSE_STMT"
  /\ last.processed
  /\ last.ret = 1
  /\ Len(last.before) > 1
  /\ Top(last.before) = "IF_ELSE"
  /\ if_levels = last.before

\* C5: commands_scope_finish() leaves if_levels as it was before the matching
\* commands_scope_start(), and fails exactly when a frame of a conditional
\* was still above the guard.
C5_ScopeBalance ==
  last.op = "scope_finish" =>
    /\ if_levels = last.base
    /\ last.ret = 1 <=> Top(last.before) # "IF_SCOPE_GUARD"
    /\ last.ret = 0 <=> last.before = Append(last.base, "IF_SCOPE_GUARD")

C5_Witness ==
  /\ last.op = "scope_finish"
  /\ last.ret = 1
  /\ Len(last.before) >= Len(last.base) + 3
  /\ if_levels = last.base

\* C6: whenever if_levels is at scope bottom the counter of skipped nested
\* ifs is zero.
C6_NoSkipAtScopeBottom ==
  is_at_scope_bottom(if_levels) => skipped_nested_if_stmts = 0

(***************************************************************************)
(* Claims about the splitter.                                              *)
(***************************************************************************)
Blank(c) == c \in {" ", "\t", "\n", "\r", "\f", ":"}

\* Index of the first character of l, at or after i, that is neither
\* whitespace nor a colon; Len(l) + 1 when there is none.
FirstNonBlank(l, i) ==
  LET S == {k \in i..Len(l) : ~Blank(l[k])}
  IN IF S = {} THEN Len(l) + 1 ELSE CHOOSE k \in S : \A j \in S : k <= j

StripLead(l) == SubSeq(l, FirstNonBlank(l, 1), Len(l))

NoBar(l) == \A i \in 1..Len(l) : l[i] # "|"

IsBar(l, j) == j >= 1 /\ j <= Len(l) /\ l[j] = "|"

\* Category of the command at the start of l.
FirstKind(l) == get_cmd_args_type(l \o <<NUL>>, FirstNonBlank(l, 1))

\* The backslashes of l, paired from the left, leave the last character of l
\* as a backslash without a partner.
RECURSIVE UnpairedEndFrom(_, _)
UnpairedEndFrom(l, i) ==
  IF i > Len(l) THEN FALSE
  ELSE IF l[i] = "\\" THEN (IF i = Len(l) THEN TRUE
                            ELSE UnpairedEndFrom(l, i + 2))
  ELSE UnpairedEndFrom(l, i + 1)

UnpairedEnd(l) == UnpairedEndFrom(l, 1)

\* C7: split returns at least one sub-command for every line, and exactly
\* the empty string for the empty line.
C7_SplitNonEmpty ==
  pc = "done" => (Len(cmds) >= 1 /\ (line = <<>> => cmds = <<<<>>>>))

RECURSIVE RefCmds(_, _, _)
RECURSIVE RefScan(_, _, _, _)
RefScan(l, j, cur, everyBar) ==
  IF j > Len(l) THEN [ok |-> TRUE, cmds |-> <<cur>>]
  ELSE IF l[j] = "\\"
  THEN IF j = Len(l) THEN [ok |-> FALSE, cmds |-> <<>>]
       ELSE IF l[j + 1] = "|" THEN RefScan(l, j + 2, Append(cur, "|"),
                                           everyBar)
       ELSE RefScan(l, j + 2, cur \o <<l[j], l[j + 1]>>, everyBar)
  ELSE IF l[j] = "|"
          /\ (everyBar
              \/ line_pos(cur \o <<NUL>>, 1, Len(cur) + 1, " ", FALSE) = 0)
  THEN LET rest == RefCmds(l, j + 1, everyBar)
       IN [ok |-> rest.ok, cmds |-> <<cur>> \o rest.cmds]
  ELSE RefScan(l, j + 1, Append(cur, l[j]), everyBar)

RefCmds(l, i, everyBar) ==
  LET s == FirstNonBlank(l, i) IN
  IF s > Len(l) THEN [ok |-> TRUE, cmds |-> <<>>]
  ELSE IF get_cmd_id(l \o <<NUL>>, s) # "COM_OTHER"
  THEN [ok |-> FALSE, cmds |-> <<>>]
  ELSE RefScan(l, s, <<>>, everyBar)

\* C9, as stated: in regular sub-commands every unescaped | splits the line,
\* \| becomes a literal | and every other backslash pair is copied.
C9_Original ==
  LET ref == RefCmds(line, 1, TRUE) IN
  (pc = "done" /\ line # <<>> /\ ref.ok) => cmds = ref.cmds

\* C9, amended: in regular sub-commands an unescaped | splits the line when
\* the classifier reports it as out of an argument (cmd1|cmd2 gives cmd1 and
\* cmd2) and is an ordinary character when it is inside one; \| is not a
\* split point and becomes a literal | (cmd1\|cmd2 gives cmd1|cmd2); every
\* other backslash pair is copied unchanged.
C9_RegularSplit ==
  LET ref == RefCmds(line, 1, FALSE) IN
  /\ (pc = "done" /\ line # <<>> /\ ref.ok) => cmds = ref.cmds
  /\ (pc = "done" /\ line = Ex_cmd1_cmd2)
       => cmds = <<<<"c", "m", "d", "1">>, <<"c", "m", "d", "2">>>>
  /\ (pc = "done" /\ line = Ex_cmd1_esc_cmd2)
       => cmds = <<<<"c", "m", "d", "1", "|", "c", "m", "d", "2">>>>

C9_Witness ==
  /\ pc = "done"
  /\ line = Ex_escapes
  /\ cmds = <<<<"c", "\\", "c">>, <<"c", "|", "c">>>>

\* The first sub-command of a line that starts with an expression command
\* begins at s and ends right before e.
ExprFirst(l) == l # <<>> /\ FirstKind(l) = "CAT_EXPR"

FirstStart == FirstNonBlank(line, 1)

FirstEnd == FirstStart + Len(cmds[1])

LoneBar(l, j) == IsBar(l, j) /\ ~IsBar(l, j - 1) /\ ~IsBar(l, j + 1)

\* The first sub-command of an expression command is a piece of the line
\* that ends at none of the || in Pairs.
OrNeverSplits(Pairs) ==
  (pc = "done" /\ ExprFirst(line)) =>
    /\ Len(cmds) >= 1
    /\ cmds[1] = SubSeq(line, FirstStart, FirstEnd - 1)
    /\ \A j \in Pairs : FirstEnd \notin {j, j + 1}

\* Where a || that no third | follows starts.
OrPairs ==
  {j \in 1..Len(line) :
     IsBar(line, j) /\ IsBar(line, j + 1) /\ ~IsBar(line, j + 2)}

\* C10, as stated: for an expression command a || never splits and a lone |
\* does; echo 1||2|cmd2 gives echo 1||2 and cmd2.
C10_Original ==
  /\ OrNeverSplits(OrPairs)
  /\ (pc = "done" /\ ExprFirst(line)) =>
       \A j \in FirstStart..Len(line) : LoneBar(line, j) => FirstEnd <= j
  /\ (pc = "done" /\ line = Ex_echo_or)
       => cmds = <<SubSeq(Ex_echo_or, 1, 9), <<"c", "m", "d", "2">>>>

\* C10, amended: for an expression command a || that no third | follows and
\* no backslash precedes never splits, and a lone | that the classifier
\* reports as out of an argument does: echo 1 || 2 | cmd2 gives
\* "echo 1 || 2 " and cmd2, while echo 1||2|cmd2, whose bars are all inside
\* the argument, stays one sub-command.
C10_ExprSplit ==
  /\ OrNeverSplits({j \in OrPairs : j = 1 \/ line[j - 1] # "\\"})
  /\ (pc = "done" /\ ExprFirst(line)) =>
       \A j \in FirstStart..Len(line) :
         (LoneBar(line, j)
          /\ line_pos(line \o <<NUL>>, FirstStart, j, " ", FALSE) = 0)
           => FirstEnd <= j
  /\ (pc = "done" /\ line = Ex_echo_or_spaced)
       => cmds = <<SubSeq(Ex_echo_or_spaced, 1, 12), <<"c", "m", "d", "2">>>>
  /\ (pc = "done" /\ line = Ex_echo_or) => cmds = <<Ex_echo_or>>

C10_Witness ==
  /\ pc = "done"
  /\ line = Ex_echo_or_spaced
  /\ cmds = <<SubSeq(Ex_echo_or_spaced, 1, 12), <<"c", "m", "d", "2">>>>

\* C11: once a sub-command that takes the rest of the line starts, first on
\* the line or after earlier splits, nothing is added or changed until the
\* end, and the text of the line from the start of that sub-command to the
\* end of the line is returned as the last sub-command, whatever | it
\* holds; map a b|c gives map a b|c.
C11_WholeLineVerbatim ==
  /\ (pc \in {"loop", "done"} /\ args_kind = "CAT_UNTIL_THE_END"
      /\ cmdline <= Len(line))
       => /\ get_cmd_args_type(line \o <<NUL>>, cmdline) = "CAT_UNTIL_THE_END"
          /\ CStr(mem, cmdline) = SubSeq(line, cmdline, Len(line))
          /\ pc = "done" => /\ Len(cmds) >= 1
                            /\ cmds[Len(cmds)] =
                                 SubSeq(line, cmdline, Len(line))
  /\ (pc = "done" /\ line # <<>> /\ FirstKind(line) = "CAT_UNTIL_THE_END")
       => cmds = <<StripLead(line)>>
  /\ (pc = "done" /\ line = Ex_map) => cmds = <<Ex_map>>

C11_Witness ==
  /\ pc = "done"
  /\ args_kind = "CAT_UNTIL_THE_END"
  /\ Len(cmds) = 2
  /\ \E i \in 1..Len(cmds[2]) : cmds[2][i] = "|"
  /\ is_out_of_arg(line \o <<NUL>>, cmdline,
                   until_first(line \o <<NUL>>, cmdline, "|"))

\* C12: every sub-command ends at the end of the string or at a | that
\* get_cmdline_location() reports as out of an argument.
C12_SplitPointsOutOfArg ==
  \A i \in 1..Len(trace.splits) :
    \/ trace.splits[i].at = NUL
    \/ trace.splits[i].at = "|" /\ trace.splits[i].loc = "CLL_OUT_OF_ARG"

(***************************************************************************)
(* Claims about exec_commands().                                           *)
(***************************************************************************)
\* C13: exec_commands() passes every sub-command that break_cmdline()
\* returned to exec_command(), in the order of the list, and goes on to the
\* next one whatever the previous one returned.
C13_EveryCmdRuns ==
  /\ pc = "exec" => ex.ran = SubSeq(cmds, 1, ex.cmd - 1)
  /\ pc = "returned" => (ex.ran = cmds /\ Len(ex.rets) = Len(cmds))

C13_Witness ==
  /\ pc = "returned"
  /\ Len(cmds) >= 2
  /\ cmds[1] # cmds[2]
  /\ ex.rets[1] < 0
  /\ ex.ran = cmds

\* The worst of the results: -1 if one is negative, else 1 if one is
\* positive, else 0.
Worst(rets) ==
  IF \E i \in 1..Len(rets) : rets[i] < 0 THEN -1
  ELSE IF \E i \in 1..Len(rets) : rets[i] > 0 THEN 1
  ELSE 0

\* C14: the value that exec_commands() returns is the worst result over all
\* sub-commands of the line, in whatever order they come.
C14_WorstStatus == pc = "returned" => ex.save_msg = Worst(ex.rets)

\* C15: exec_commands() returns 0 iff every sub-command returned 0, a line
\* of one command returns 0 when the command returns 0 and a non-zero value
\* when it fails, and the value is always -1, 0 or 1.
C15_ZeroIffAllZero ==
  pc = "returned" =>
    /\ ex.save_msg \in {-1, 0, 1}
    /\ ex.save_msg = 0 <=> \A i \in 1..Len(ex.rets) : ex.rets[i] = 0
    /\ (Len(cmds) = 1 /\ ex.rets[1] = 0) => ex.save_msg = 0
    /\ (Len(cmds) = 1 /\ ex.rets[1] < 0) => ex.save_msg # 0

C15_Witness ==
  /\ pc = "returned"
  /\ Len(cmds) = 2
  /\ ex.rets = <<1, 0>>
  /\ ex.save_msg = 1

(***************************************************************************)
(* Claims about the classifier.                                            *)
(***************************************************************************)
\* The state and the count of the scan of text from its start to end.
ScanAt(text, end, sep, rquoting) ==
  line_pos_loop(text \o <<NUL>>, 1, end, sep, rquoting, "BEGIN", 0)

\* The separator and the regular expression quoting that
\* get_cmdline_location() uses for the command that text starts with.
LocSep(text) ==
  LET info == get_cmd_info(text \o <<NUL>>, 1) IN
  IF info.id \in {"COM_SUBSTITUTE", "COM_TR"} THEN info.sep ELSE " "

LocRQuoting(text) ==
  get_cmd_id(text \o <<NUL>>, 1) \in
    {"COM_FILTER", "COM_SUBSTITUTE", "COM_TR"}

InArgument(sep, count) ==
  IF sep = " " THEN count >= 1 ELSE count \in {1, 2}

\* C16: when the scan reaches the position in the state NO_QUOTING, the
\* position is in an argument (2, CLL_NO_QUOTING) for the separator ' ' iff
\* at least one separator was crossed and for another separator iff one or
\* two were crossed, and out of an argument (0, CLL_OUT_OF_ARG) otherwise.
C16_InArgumentRule ==
  /\ cl.pc = "line_pos" =>
       LET r == ScanAt(cl.text, cl.end, cl.sep, cl.rquoting) IN
       (~r.ret1 /\ r.state = "NO_QUOTING") =>
         cl.ret = IF InArgument(cl.sep, r.count) THEN 2 ELSE 0
  /\ cl.pc = "location" =>
       LET r == ScanAt(cl.text, cl.end, LocSep(cl.text),
                       LocRQuoting(cl.text)) IN
       (~r.ret1 /\ r.state = "NO_QUOTING") =>
         cl.ret = IF InArgument(LocSep(cl.text), r.count)
                  THEN "CLL_NO_QUOTING" ELSE "CLL_OUT_OF_ARG"

C16_Witness ==
  /\ cl.pc = "location"
  /\ cl.text = Ex_sub4
  /\ cl.end = 8
  /\ ScanAt(cl.text, cl.end, "/", TRUE).state = "NO_QUOTING"
  /\ ScanAt(cl.text, cl.end, "/", TRUE).count = 3
  /\ cl.ret = "CLL_OUT_OF_ARG"

\* The closing quote of the region that a quote q opens right before i: the
\* first q from i on, inside "..." not counting a character that follows a
\* backslash; Len(t) + 1 when the region is never closed.
RECURSIVE CloseOf(_, _, _)
CloseOf(t, i, q) ==
  IF i > Len(t) THEN Len(t) + 1
  ELSE IF q = "\"" /\ t[i] = "\\" THEN CloseOf(t, i + 2, q)
  ELSE IF t[i] = q THEN i
  ELSE CloseOf(t, i + 1, q)

\* Pairing backslashes from i on, the character at k is a backslash that
\* escapes the one after it.
RECURSIVE EscapesAt(_, _, _)
EscapesAt(t, i, k) ==
  IF i > k THEN FALSE
  ELSE IF i = k THEN t[i] = "\\"
  ELSE IF t[i] = "\\" THEN EscapesAt(t, i + 2, k)
  ELSE EscapesAt(t, i + 1, k)

QuoteCode(q) == IF q = "'" THEN 3 ELSE 4

\* The quote at o is one that the scan meets outside any quoting and does
\* not skip.
OpensAt(t, o, sep, rquoting) ==
  /\ t[o] \in {"'", "\""}
  /\ line_pos(t \o <<NUL>>, 1, o, sep, rquoting) \in {0, 2}

\* C17, as stated: for any separator, at every position inside a '...' or
\* "..." region, closed or not, the result is the matching quoted state, and
\* right after the closing quote it is not a quoted state.
C17_Original ==
  cl.pc = "line_pos" =>
    \A o \in 1..(cl.end - 1) :
      OpensAt(cl.text, o, cl.sep, cl.rquoting) =>
        LET c == CloseOf(cl.text, o + 1, cl.text[o]) IN
        /\ cl.end <= c => cl.ret = QuoteCode(cl.text[o])
        /\ cl.end = c + 1 => cl.ret \in {0, 2}

\* C17, amended: for a region whose opening quote the scan sees as one (for
\* a separator other than ' ' only a quote that follows a character of an
\* unquoted token, at the start of a token it is an ordinary character), at
\* every position inside the region, closed or not, the result is the
\* matching quoted state, except right after a backslash inside "..." where
\* it is 1; right after the closing quote it is 0 or 2, not a quoted state.
C17_QuoteRoundTrip ==
  cl.pc = "line_pos" =>
    \A o \in 1..(cl.end - 1) :
      (/\ OpensAt(cl.text, o, cl.sep, cl.rquoting)
       /\ \/ cl.sep = " "
          \/ ScanAt(cl.text, o, cl.sep, cl.rquoting).state = "NO_QUOTING")
        => LET q == cl.text[o]
               c == CloseOf(cl.text, o + 1, q)
           IN /\ cl.end <= c =>
                   cl.ret = IF q = "\"" /\ cl.end > o + 1
                               /\ EscapesAt(cl.text, o + 1, cl.end - 1)
                            THEN 1 ELSE QuoteCode(q)
              /\ cl.end = c + 1 => cl.ret \in {0, 2}

C17_Witness ==
  /\ cl.pc = "line_pos"
  /\ cl.sep = " "
  /\ cl.text = <<"\"", "\\", "\"", "\"">>
  /\ cl.end = 5
  /\ cl.ret = 0

\* The scan of text up to end met a backslash as its last character, in the
\* state and with the count of before.
BackslashIn(text, end, sep, rquoting, states) ==
  /\ end >= 2
  /\ text[end - 1] = "\\"
  /\ ~ScanAt(text, end - 1, sep, rquoting).ret1
  /\ ScanAt(text, end - 1, sep, rquoting).state \in states

Escaping == {"NO_QUOTING", "D_QUOTING", "R_QUOTING"}

\* C18: a backslash met in NO_QUOTING, D_QUOTING or R_QUOTING that is the
\* last character before the position gives the code 1, reported as
\* CLL_NO_QUOTING; when a character follows, that character, whatever it is,
\* is skipped and the scan goes on behind it in the state and with the count
\* it had before the backslash.  In S_QUOTING a backslash is an ordinary
\* character: the state stays S_QUOTING and a ' right after it closes the
\* quotation.
C18_BackslashSkipsOne ==
  /\ cl.pc = "line_pos" =>
       LET t == cl.text
           before == ScanAt(t, cl.end - 1, cl.sep, cl.rquoting)
       IN /\ BackslashIn(t, cl.end, cl.sep, cl.rquoting, Escaping) =>
               /\ cl.ret = 1
               /\ \A e \in (cl.end + 1)..(Len(t) + 1) :
                    ScanAt(t, e, cl.sep, cl.rquoting) =
                      line_pos_loop(t \o <<NUL>>, cl.end + 1, e, cl.sep,
                                    cl.rquoting, before.state, before.count)
          /\ BackslashIn(t, cl.end, cl.sep, cl.rquoting, {"S_QUOTING"}) =>
               /\ cl.ret = 3
               /\ (cl.end <= Len(t) /\ t[cl.end] = "'") =>
                    ScanAt(t, cl.end + 1, cl.sep, cl.rquoting).state = "BEGIN"
               /\ (cl.end <= Len(t) /\ t[cl.end] # "'") =>
                    ScanAt(t, cl.end + 1, cl.sep, cl.rquoting).state =
                      "S_QUOTING"
  /\ cl.pc = "location" =>
       LET sep == LocSep(cl.text)
           rquoting == LocRQuoting(cl.text)
       IN /\ BackslashIn(cl.text, cl.end, sep, rquoting, Escaping) =>
               cl.ret = "CLL_NO_QUOTING"
          /\ BackslashIn(cl.text, cl.end, sep, rquoting, {"S_QUOTING"}) =>
               cl.ret = "CLL_S_QUOTING"

C18_Witness ==
  /\ cl.pc = "location"
  /\ cl.text = Ex_filter
  /\ cl.end = 8
  /\ ScanAt(cl.text, 7, " ", TRUE).state = "R_QUOTING"
  /\ ScanAt(cl.text, 9, " ", TRUE).state = "R_QUOTING"
  /\ ScanAt(cl.text, 11, " ", TRUE).state = "BEGIN"
  /\ cl.ret = "CLL_NO_QUOTING"

(***************************************************************************)
(* Claims about eval_arglist().                                            *)
(***************************************************************************)
\* The expressions of a text, told from the text alone: the pieces between
\* whitespace that is outside '...', each with the index it starts at.
RECURSIVE RefTokens(_, _, _, _)
RefTokens(t, i, cur, quoted) ==
  LET flush == IF cur.str = <<>> THEN <<>> ELSE <<cur>> IN
  IF i > Len(t) THEN flush
  ELSE IF ~quoted /\ isspace(t[i])
  THEN flush \o RefTokens(t, i + 1, [at |-> i + 1, str |-> <<>>], FALSE)
  ELSE RefTokens(t, i + 1,
                 [at |-> IF cur.str = <<>> THEN i ELSE cur.at,
                  str |-> Append(cur.str, t[i])],
                 IF t[i] = "'" THEN ~quoted ELSE quoted)

TokensOf(t) == RefTokens(t, 1, [at |-> 1, str |-> <<>>], FALSE)

IsNumber(s) == s # <<>> /\ \A i \in 1..Len(s) : s[i] \in Digits

IsString(s) ==
  /\ Len(s) >= 2
  /\ s[1] = "'"
  /\ s[Len(s)] = "'"
  /\ \A i \in 2..(Len(s) - 1) : s[i] # "'"

ValidExpr(s) == IsNumber(s) \/ IsString(s)

StringForm(s) == IF IsNumber(s) THEN s ELSE SubSeq(s, 2, Len(s) - 1)

\* The string forms of toks[i..], each put behind acc with one space when
\* acc is not empty.
RECURSIVE JoinFrom(_, _, _)
JoinFrom(toks, i, acc) ==
  IF i > Len(toks) THEN acc
  ELSE JoinFrom(toks, i + 1,
                (IF acc # <<>> THEN acc \o <<" ">> ELSE acc)
                  \o StringForm(toks[i].str))

AllValid(toks) == \A i \in 1..Len(toks) : ValidExpr(toks[i].str)

\* C19: for a text of n >= 1 expressions that the parser accepts,
\* eval_arglist() returns their string forms in order, each behind one space
\* when something not empty was collected before it, whatever whitespace is
\* between the expressions; "1 2" gives "1 2".
C19_JoinedResults ==
  ev.pc = "returned" =>
    LET toks == TokensOf(ev.text) IN
    /\ (Len(toks) >= 1 /\ AllValid(toks)) =>
         /\ ~ev.ret.null
         /\ ev.ret.str = JoinFrom(toks, 1, <<>>)
         /\ ev.results = [i \in 1..Len(toks) |-> StringForm(toks[i].str)]
    /\ ev.text = Ex_eval_1_2 => ev.ret.str = <<"1", " ", "2">>

C19_Witness ==
  /\ ev.pc = "returned"
  /\ ev.text = Ex_eval_wide
  /\ ~ev.ret.null
  /\ ev.ret.str = <<"1", " ", "2">>

\* C20: eval_arglist() fails (returns NULL) iff one of the expressions of
\* the text is rejected by the parser; then nothing of what was collected is
\* returned and *stop_ptr is the start of the first rejected expression; when
\* it succeeds args is at the end of the text.
C20_FailsIffRejected ==
  ev.pc = "returned" =>
    LET toks == TokensOf(ev.text)
        bad == {i \in 1..Len(toks) : ~ValidExpr(toks[i].str)}
    IN /\ ev.ret.null <=> bad # {}
       /\ bad # {} =>
            /\ ev.eval_result.null
            /\ ev.stop_ptr = toks[CHOOSE i \in bad : \A j \in bad : i <= j].at
       /\ bad = {} => ev.args = Len(ev.text) + 1

C20_Witness ==
  /\ ev.pc = "returned"
  /\ ev.ret.null
  /\ Len(ev.results) >= 1
  /\ ev.stop_ptr > 1
  /\ ev.text[ev.stop_ptr] = "x"

(***************************************************************************)
(* Claims about execute_command(), checked under SpecCmd.                  *)
(***************************************************************************)

Dispatched == xc.op = "cmd" /\ xc.dispatched

\* C21: execute_command() returns -1 for every negative result of the
\* handler; CMDS_ERR_INVALID_RANGE and CMDS_ERR_CUSTOM post no message, every
\* other negative code posts exactly one message ("Unknown error" for a code
\* the switch does not name); a non-negative result is returned unchanged
\* and posts nothing.
C21_ErrorMapping ==
  Dispatched =>
    /\ xc.result >= 0 => xc.ret = xc.result /\ xc.msgs = <<>>
    /\ xc.result < 0 =>
         /\ xc.ret = -1
         /\ IF xc.result \in {CMDS_ERR("CMDS_ERR_INVALID_RANGE"),
                              CMDS_ERR("CMDS_ERR_CUSTOM")}
            THEN xc.msgs = <<>>
            ELSE Len(xc.msgs) = 1
         /\ xc.result = UnknownErr => xc.msgs = <<"Unknown error">>
         /\ xc.result = CMDS_ERR("CMDS_ERR_ZERO_COUNT")
              => xc.msgs = <<"Zero count">>

C21_Witness ==
  /\ Dispatched
  /\ xc.result = UnknownErr
  /\ xc.ret = -1
  /\ xc.msgs = <<"Unknown error">>

\* C22: when a branch of the chain has matched (the top frame is IF_MATCH or
\* IF_AFTER_MATCH) an elseif makes the top IF_AFTER_MATCH whatever its
\* condition is and an else makes it IF_FINISH, and the gate is closed for
\* ordinary commands afterwards; from IF_BEFORE_MATCH an elseif with a true
\* condition gives IF_MATCH, one with a false condition leaves
\* IF_BEFORE_MATCH and an else gives IF_ELSE.
C22_BranchTransitions ==
  (Dispatched /\ xc.levels_before # <<>>
   /\ xc.id \in {"COM_ELSEIF_STMT", "COM_ELSE_STMT"}) =>
    LET t == Top(xc.levels_before)
        becomes(f) == if_levels = int_stack_set_top(xc.levels_before, f)
        closed == ~cmd_should_be_processed(if_levels,
                     skipped_nested_if_stmts, "COM_OTHER").ret
    IN /\ (t \in {"IF_MATCH", "IF_AFTER_MATCH"} /\ xc.id = "COM_ELSEIF_STMT")
            => becomes("IF_AFTER_MATCH") /\ closed
       /\ (t \in {"IF_MATCH", "IF_AFTER_MATCH"} /\ xc.id = "COM_ELSE_STMT")
            => becomes("IF_FINISH") /\ closed
       /\ (t = "IF_BEFORE_MATCH" /\ xc.id = "COM_ELSEIF_STMT" /\ xc.cond)
            => becomes("IF_MATCH")
       /\ (t = "IF_BEFORE_MATCH" /\ xc.id = "COM_ELSEIF_STMT" /\ ~xc.cond)
            => becomes("IF_BEFORE_MATCH")
       /\ (t = "IF_BEFORE_MATCH" /\ xc.id = "COM_ELSE_STMT")
            => becomes("IF_ELSE")

C22_Witness ==
  /\ Dispatched
  /\ xc.id = "COM_ELSEIF_STMT"
  /\ xc.cond
  /\ xc.levels_before # <<>>
  /\ Top(xc.levels_before) = "IF_AFTER_MATCH"
  /\ Top(if_levels) = "IF_AFTER_MATCH"

\* C23: when the gate rejects a command execute_command() returns 0, posts
\* nothing, dispatches no handler and leaves the if-stack, the selection and
\* keep_view_selection as they were.
C23_RejectedHasNoEffect ==
  (xc.op = "cmd" /\ ~xc.dispatched) =>
    /\ xc.ret = 0
    /\ xc.msgs = <<>>
    /\ if_levels = xc.levels_before
    /\ xc.selected_files = xc.selected_before
    /\ keep_view_selection = xc.keep_before

C23_Witness ==
  /\ xc.op = "cmd"
  /\ ~xc.dispatched
  /\ xc.id = "COM_OTHER"
  /\ xc.keep_before
  /\ xc.selected_before > 0
  /\ xc.levels_before # <<>>

\* C24: keep_view_selection is false when a dispatched handler starts, and
\* after an if, or an elseif or else that succeeded, it is true and the
\* selection is the one the command found.
C24_FlagResetAndSet ==
  Dispatched =>
    /\ ~xc.keep_start
    /\ (xc.id \in {"COM_IF_STMT", "COM_ELSEIF_STMT", "COM_ELSE_STMT"}
        /\ xc.result = 0)
         => /\ keep_view_selection
            /\ xc.selected_files = xc.selected_before

C24_Witness ==
  /\ Dispatched
  /\ xc.id = "COM_ELSE_STMT"
  /\ xc.result = 0
  /\ ~xc.menu
  /\ xc.mode = "NORMAL_MODE"
  /\ ~xc.keep_before
  /\ xc.selected_before > 0
  /\ xc.selected_files = xc.selected_before
  /\ keep_view_selection

\* C25 as stated: after a handler that succeeded the selection is cleared
\* when the command came from no menu and the mode is the normal one, unless
\* the flag was set during the handler, and is left alone in a menu or in
\* another mode.
C25_Original ==
  (Dispatched /\ xc.result >= 0) =>
    IF ~xc.menu /\ xc.mode = "NORMAL_MODE"
    THEN keep_view_selection \/ xc.selected_files = 0
    ELSE xc.selected_files = xc.selected_before

\* C25: after a handler that succeeded outside of a menu the selection is
\* cleared unless the flag was set during the handler or the command is
\* COM_GOTO, whatever the mode is; in a menu it is left alone.  The test of
\* the menu and of the normal mode belongs to the failure path: after a
\* handler that failed outside of a menu in normal mode nothing is selected.
C25_SelectionAfterCommand ==
  Dispatched =>
    /\ xc.result >= 0 =>
         xc.selected_files =
           IF ~xc.menu /\ xc.id # "COM_GOTO" /\ ~keep_view_selection
           THEN 0 ELSE xc.selected_before
    /\ (xc.result < 0 /\ ~xc.menu /\ xc.mode = "NORMAL_MODE")
         => xc.selected_files = 0
    /\ (xc.result < 0 /\ xc.menu) => xc.selected_files = xc.selected_before

C25_Witness ==
  /\ Dispatched
  /\ xc.result >= 0
  /\ ~xc.menu
  /\ xc.mode = "VISUAL_MODE"
  /\ xc.id = "COM_OTHER"
  /\ xc.selected_before > 0
  /\ ~keep_view_selection
  /\ xc.selected_files = 0

(***************************************************************************)
(* Claims about select_range(), checked under SpecRange.                   *)
(***************************************************************************)

\* C26: with an explicit range begin..end the earlier selection is dropped
\* and exactly the rows of the range are selected, except the parent
\* directory entry when the range has more than one row; a range of that
\* single row selects it.
C26_ExplicitRange ==
  (sr.pc = "returned" /\ sr.begin > -1) =>
    /\ sr.view.selected =
         (sr.begin..sr.end) \
           (IF sr.begin # sr.end THEN {sr.before.parent} ELSE {})
    /\ sr.view.selected_files = Cardinality(sr.view.selected)
    /\ (sr.begin = sr.end /\ sr.begin = sr.before.parent)
         => sr.view.selected = {sr.before.parent}

C26_Witness ==
  /\ sr.pc = "returned"
  /\ sr.begin = 0
  /\ sr.end = 2
  /\ sr.before.parent = 1
  /\ sr.before.selected = {1}
  /\ sr.view.selected = {0, 2}

C28_Original ==
  (sr.pc = "returned" /\ sr.view.selected_files > 0)
    => ~sr.view.user_selection

\* C28: whenever select_range() has set the selection (an explicit range,
\* or nothing was selected before) and something is selected when it
\* returns, user_selection is 0; when a selection exists and no explicit
\* begin is given it returns at once and user_selection keeps its value.
C28_MarkedWhenSet ==
  sr.pc = "returned" =>
    /\ (sr.view.selected_files > 0
        /\ (sr.begin > -1 \/ sr.before.selected_files = 0))
         => ~sr.view.user_selection
    /\ (sr.begin = -1 /\ sr.before.selected_files > 0)
         => sr.view.user_selection = sr.before.user_selection

C28_Witness ==
  /\ sr.pc = "returned"
  /\ sr.begin > -1
  /\ sr.before.user_selection
  /\ sr.before.selected_files > 0
  /\ sr.view.selected_files > 0
  /\ ~sr.view.user_selection

(***************************************************************************)
(* Claims about the association lists, checked under SpecAssoc.            *)
(***************************************************************************)

\* C29: when an allocation fails in add_assoc() or add_assoc_record() (the
\* realloc() of the list or the strdup() of the command or of the
\* description) the failure is reported and the list is as it was before
\* the call.
C29_OomLeavesList ==
  (ft.pc = "returned" /\ ft.failed) =>
    /\ ft.errors = 1
    /\ ft.fn = "add_assoc" => ft.assoc_list = ft.before
    /\ ft.fn = "add_assoc_record" => ft.records = ft.before

(***************************************************************************)
(* Memory safety of break_cmdline(), checked under SpecSplit.              *)
(***************************************************************************)

\* C30: while break_cmdline() runs, raw never moves past the terminating
\* zero byte of cmdline_copy (index size of mem), so no byte behind the copy
\* is read or written and no access faults.
C30_RawInsideCopy ==
  pc \notin {"idle", "start"} =>
    /\ raw <= size
    /\ ~trace.oob
    /\ pc # "crash"

C32_EscapedQuoteOpensNothing ==
  (/\ cl.pc = "line_pos"
   /\ cl.end >= 3
   /\ cl.text[cl.end - 1] \in {"'", "\""}
   /\ BackslashIn(cl.text, cl.end - 1, cl.sep, cl.rquoting,
                  {"BEGIN", "NO_QUOTING"}))
    => cl.ret \notin {3, 4}

====
